---- MODULE Spec2Model ----
(***************************************************************************)
(* Protocol engine of twitchgo: connection handshake, message parser and   *)
(* event dispatcher.                                                       *)
(*                                                                         *)
(* Strings are sequences of symbols.  A symbol is either one of the bytes  *)
(* the code looks at (" ", ":", "@", "!", CR, LF) or a word: a non-empty   *)
(* run of bytes none of which is one of those.                             *)
(***************************************************************************)
EXTENDS Integers, Sequences, FiniteSets, TLC

CR == "\\r"
LF == "\\n"
SP == " "

(* ------------------------------ strings ------------------------------- *)

\* s[from:] of Go, from 0-based
Tail0(s, from) == SubSeq(s, from + 1, Len(s))

HasPrefix(s, p) == Len(p) <= Len(s) /\ SubSeq(s, 1, Len(p)) = p

HasSuffix(s, p) == Len(p) <= Len(s) /\ SubSeq(s, Len(s) - Len(p) + 1, Len(s)) = p

\* strings.Index: 0-based position of the first occurrence of sep, or -1
RECURSIVE IndexFrom(_, _, _)
IndexFrom(s, sep, i) ==
  IF i + Len(sep) > Len(s) THEN -1
  ELSE IF \A j \in 1..Len(sep) : s[i + j] = sep[j] THEN i
  ELSE IndexFrom(s, sep, i + 1)

Index(s, sep) == IndexFrom(s, sep, 0)

\* strings.Split for a non-empty separator
RECURSIVE Split(_, _)
Split(s, sep) ==
  LET i == Index(s, sep)
  IN IF i = -1 THEN <<s>>
     ELSE <<SubSeq(s, 1, i)>> \o Split(Tail0(s, i + Len(sep)), sep)

\* strings.Join
RECURSIVE Join(_, _)
Join(parts, sep) ==
  IF Len(parts) = 0 THEN <<>>
  ELSE IF Len(parts) = 1 THEN parts[1]
  ELSE parts[1] \o sep \o Join(Tail(parts), sep)

\* TrimSuffix that trims nothing
TrimSuffix_None(s, suf) == s

\* strings.TrimSuffix
TrimSuffix(s, suf) ==
  IF HasSuffix(s, suf) THEN SubSeq(s, 1, Len(s) - Len(suf)) ELSE s

(* --------------------------- command names ---------------------------- *)

IRCMsgCmdJoin == <<"JOIN">>
IRCMsgCmdNotice == <<"NOTICE">>
IRCMsgCmdPart == <<"PART">>
IRCMsgCmdPing == <<"PING">>
IRCMsgCmdPong == <<"PONG">>
IRCMsgCmdPrivmsg == <<"PRIVMSG">>
IRCMsgCmdGlobaluserstate == <<"GLOBALUSERSTATE">>
IRCMsgCmdRoomstate == <<"ROOMSTATE">>
IRCMsgCmdCap == <<"CAP">>
AnyKey == <<"*">>

(* ------------------------------ parser -------------------------------- *)

\* parseMessage returns nil for an empty line
NilMessage ==
  [kind |-> "nil", Raw |-> <<>>, Tags |-> <<>>,
   Source |-> [nil |-> TRUE, Nickname |-> <<>>, Host |-> <<>>],
   Command |-> [Name |-> <<>>, Arguments |-> <<>>, Data |-> <<>>]]

\* a slice or index expression out of range aborts parseMessage
PanicMessage == [NilMessage EXCEPT !.kind = "panic"]

\* i := strings.Index(raw, " "); raw[1:i]; raw[i+1:]
CutSegment(raw) ==
  LET i == Index(raw, <<SP>>)
  IN IF i < 1 THEN [panic |-> TRUE, seg |-> <<>>, rest |-> <<>>]
     ELSE [panic |-> FALSE, seg |-> SubSeq(raw, 2, i), rest |-> Tail0(raw, i + 1)]

\* source := strings.Split(raw[1:i], "!")
ParseSource(seg) ==
  LET source == Split(seg, <<"!">>)
  IN IF Len(source) = 2
     THEN [nil |-> FALSE, Nickname |-> source[1], Host |-> source[1]]
     ELSE [nil |-> FALSE, Nickname |-> <<>>, Host |-> source[1]]

\* data := strings.Split(raw, " :"); args := strings.Split(data[0], " ")
ParseCommand(raw) ==
  LET data == Split(raw, <<SP, ":">>)
      args == Split(data[1], <<SP>>)
  IN [Name |-> args[1],
      Arguments |-> IF Len(args) > 1 THEN Tail(args) ELSE <<>>,
      Data |-> IF Len(data) > 1 THEN Join(Tail(data), <<SP, ":">>) ELSE <<>>]

parseMessage(raw) ==
  IF Len(raw) = 0 THEN NilMessage
  ELSE
    LET t == IF raw[1] = "@" THEN CutSegment(raw)
             ELSE [panic |-> FALSE, seg |-> <<>>, rest |-> raw]
    IN IF t.panic \/ Len(t.rest) = 0 THEN PanicMessage
       ELSE
         LET s == IF t.rest[1] = ":" THEN CutSegment(t.rest)
                  ELSE [panic |-> FALSE, seg |-> <<>>, rest |-> t.rest]
         IN IF s.panic THEN PanicMessage
            ELSE [kind |-> "msg", Raw |-> raw, Tags |-> t.seg,
                  Source |-> IF t.rest[1] = ":" THEN ParseSource(s.seg)
                             ELSE NilMessage.Source,
                  Command |-> ParseCommand(s.rest)]

(* ------------------------------ sender -------------------------------- *)

\* SendCommand without the return for an empty command
SendCommand_NoEmptyCheck(cmd) == <<TrimSuffix(cmd, <<LF>>) \o <<CR, LF>>>>

\* SendCommand: the payloads handed to conn.Write (none for an empty command)
SendCommand(cmd) ==
  LET line == TrimSuffix(cmd, <<LF>>) \o <<CR, LF>>
  IN IF Len(line) = 2 THEN <<>> ELSE <<line>>

\* MsgCmdPass
MsgCmdPass == <<"PASS">>

\* what SendCommand logs for the line it handed to conn.Write
LogOf(line, ok) ==
  IF ~ok THEN <<"failed to send command '">> \o line \o <<"': ", "err">>
  ELSE IF ~HasPrefix(line, MsgCmdPass) THEN <<"<<", SP>> \o line
  ELSE <<"<<", SP>> \o MsgCmdPass \o <<SP, "***">>

\* who calls SendCommand besides Connect: the embedding application and a
\* callback
Senders == {"application", "callback"}

\* a caller that has not called yet
NotCalled == [pc |-> "idle", cmd |-> <<>>, ok |-> TRUE, bytes |-> <<>>, log |-> <<>>]

(* ---------------------------- wire lines ------------------------------ *)

Server == <<":", "tmi.twitch.tv", SP>>
User == <<":", "foo", "!", "foo", "@", "foo.tmi.twitch.tv", SP>>

LineCap == Server \o <<"CAP", SP, "*", SP, "ACK", SP, ":", "twitch.tv/commands">>
Line001 == Server \o <<"001", SP, "bot", SP, ":", "Welcome,", SP, "GLHF!">>
Line002 == Server \o <<"002", SP, "bot", SP, ":", "Your", SP, "host">>
Line003 == Server \o <<"003", SP, "bot", SP, ":", "This", SP, "server">>
Line004 == Server \o <<"004", SP, "bot", SP, ":", "-">>
Line375 == Server \o <<"375", SP, "bot", SP, ":", "-">>
Line372 == Server \o <<"372", SP, "bot", SP, ":", "You", SP, "are", SP, "in">>
LineGlobalUserState ==
  <<"@", "display-name=Foo", SP>> \o Server \o <<"GLOBALUSERSTATE">>
LineBadAuth ==
  Server \o <<"NOTICE", SP, "*", SP, ":", "Improperly", SP, "formatted", SP, "auth">>
LineNotice == Server \o <<"NOTICE", SP, "#bar", SP, ":", "slow", SP, "mode">>
LinePing == <<"PING", SP, ":", "tmi.twitch.tv">>
LineJoin == User \o <<"JOIN", SP, "#bar">>
LineJoinBare == <<"JOIN">>
LinePart == User \o <<"PART", SP, "#bar">>
LinePrivmsg ==
  <<"@", "id=7", SP>> \o User \o <<"PRIVMSG", SP, "#bar", SP, ":", "Hello", SP, "world">>
LineRoomState == <<"@", "slow=0", SP>> \o Server \o <<"ROOMSTATE", SP, "#bar">>
LineReconnect == Server \o <<"RECONNECT">>
LineUserState == <<"@", "mod=0", SP>> \o Server \o <<"USERSTATE", SP, "#bar">>

\* the 8 acknowledgment categories of the handshake
AckNames ==
  {IRCMsgCmdCap, <<"001">>, <<"002">>, <<"003">>, <<"004">>, <<"375">>, <<"372">>,
   IRCMsgCmdGlobaluserstate}

AckLines ==
  {LineCap, Line001, Line002, Line003, Line004, Line375, Line372, LineGlobalUserState}

ImproperlyFormattedAuth == <<"Improperly", SP, "formatted", SP, "auth">>

\* every line of the model
KnownLines ==
  AckLines \cup
  {<<>>, LineBadAuth, LineNotice, LinePing, LineJoin, LineJoinBare, LinePart,
   LinePrivmsg, LineRoomState, LineReconnect, LineUserState}

\* parseMessage tabulated over the lines of the model
MessageTable == [raw \in KnownLines |-> parseMessage(raw)]

MessageOf(raw) == MessageTable[raw]

(* ----------------------------- registry ------------------------------- *)

\* keys under which the registration calls store callbacks
EventKeys ==
  {IRCMsgCmdJoin, IRCMsgCmdNotice, IRCMsgCmdPart, IRCMsgCmdPrivmsg,
   IRCMsgCmdGlobaluserstate, IRCMsgCmdRoomstate, AnyKey}

\* make(map[IRCMessageCommandName][]interface{})
NoEvents == [k \in EventKeys |-> <<>>]

\* s.events[key] = append(s.events[key], &callback); the callback is named by
\* its key and its ordinal among the callbacks registered under that key
Register(ev, key, type) ==
  [ev EXCEPT ![key] = Append(@, [type |-> type, key |-> key, ord |-> Len(@) + 1])]

Registered(ev) ==
  LET RECURSIVE Sum(_)
      Sum(K) == IF K = {} THEN 0
                ELSE LET k == CHOOSE k \in K : TRUE IN Len(ev[k]) + Sum(K \ {k})
  IN Sum(EventKeys)

\* ircCallbackEventMap as filled by init(): the callback type each entry
\* asserts, "" where the map has no entry
ircCallbackEventMap(name) ==
  CASE name = IRCMsgCmdJoin -> "IRCChannelJoinCallback"
    [] name = IRCMsgCmdPart -> "IRCChannelLeaveCallback"
    [] name = IRCMsgCmdPrivmsg -> "IRCChannelMessageCallback"
    [] name = IRCMsgCmdGlobaluserstate -> "IRCGlobalUserStateCallback"
    [] name = IRCMsgCmdRoomstate -> "IRCRoomStateCallback"
    [] name = AnyKey -> "IRCAnyCallback"
    [] OTHER -> ""

\* the entries that read m.Command.Arguments[0]
NeedsArgument(name) == name \in {IRCMsgCmdJoin, IRCMsgCmdPart, IRCMsgCmdPrivmsg}

\* s.events[name] (nil for a name never registered)
HandlersOf(ev, name) == IF name \in DOMAIN ev THEN ev[name] ELSE <<>>

(* ---------------------------- dispatcher ------------------------------ *)

NoEffect == [calls |-> <<>>, writes |-> <<>>, panic |-> FALSE]

\* for _, c := range list { handleCallback(s, m, c) } with the entry of
\* ircCallbackEventMap[entry]: the calls made, until one aborts
RECURSIVE RunCallbacks(_, _, _)
RunCallbacks(entry, m, list) ==
  IF Len(list) = 0 THEN NoEffect
  ELSE
    LET c == list[1]
        ok == c.type = ircCallbackEventMap(entry)
    IN IF ok /\ NeedsArgument(entry) /\ Len(m.Command.Arguments) = 0
       THEN [NoEffect EXCEPT !.panic = TRUE]
       ELSE
         LET rest == RunCallbacks(entry, m, Tail(list))
         IN IF ok THEN [rest EXCEPT !.calls = <<c>> \o @] ELSE rest

\* HandleOrder with the two loops swapped: the "*" callbacks first
HandleOrder_AnyFirst(ev, m) ==
  LET any == RunCallbacks(AnyKey, m, HandlersOf(ev, AnyKey))
      first == RunCallbacks(m.Command.Name, m, HandlersOf(ev, m.Command.Name))
  IN [first EXCEPT !.calls = any.calls \o @]

\* the callbacks for the command name, then those for "*"
HandleOrder(ev, m) ==
  LET first == RunCallbacks(m.Command.Name, m, HandlersOf(ev, m.Command.Name))
  IN IF first.panic THEN first
     ELSE LET any == RunCallbacks(AnyKey, m, HandlersOf(ev, AnyKey))
          IN [any EXCEPT !.calls = first.calls \o @]

\* the early return of handle for a name without an entry
HasEntry(name) == ircCallbackEventMap(name) # ""

\* the reply to a PING
PingReply == [NoEffect EXCEPT !.writes = SendCommand(IRCMsgCmdPong)]

\* handle without the early return after the PONG
handle_PingDispatched(ev, m) ==
  IF m.kind # "msg" THEN NoEffect
  ELSE IF ~HasEntry(m.Command.Name) THEN NoEffect
  ELSE LET out == HandleOrder(ev, m)
       IN IF m.Command.Name = IRCMsgCmdPing
          THEN [out EXCEPT !.writes = SendCommand(IRCMsgCmdPong) \o @]
          ELSE out

\* (m *IRCMessage) handle(s): the callbacks invoked, in order, the payloads
\* written, and whether a callback entry aborted
handle(ev, m) ==
  IF m.kind # "msg" THEN NoEffect
  ELSE IF m.Command.Name = IRCMsgCmdPing THEN PingReply
  ELSE IF ~HasEntry(m.Command.Name) THEN NoEffect
  ELSE HandleOrder(ev, m)

(* ----------------------------- handshake ------------------------------ *)

\* a | b on bytes
RECURSIVE BitOr(_, _)
BitOr(a, b) ==
  IF a = 0 THEN b
  ELSE IF b = 0 THEN a
  ELSE (IF a % 2 = 1 \/ b % 2 = 1 THEN 1 ELSE 0) + 2 * BitOr(a \div 2, b \div 2)

\* InitBit with the first MOTD line standing for both MOTD lines
InitBit_MotdBoth(name) ==
  CASE name = IRCMsgCmdCap -> 1
    [] name = <<"001">> -> 2
    [] name = <<"002">> -> 4
    [] name = <<"003">> -> 8
    [] name = <<"004">> -> 16
    [] name = <<"375">> -> 96
    [] name = IRCMsgCmdGlobaluserstate -> 128
    [] OTHER -> 0

\* the bit parseInitMessage returns for a command name
InitBit(name) ==
  CASE name = IRCMsgCmdCap -> 1
    [] name = <<"001">> -> 2
    [] name = <<"002">> -> 4
    [] name = <<"003">> -> 8
    [] name = <<"004">> -> 16
    [] name = <<"375">> -> 32
    [] name = <<"372">> -> 64
    [] name = IRCMsgCmdGlobaluserstate -> 128
    [] OTHER -> 0

\* IsBadAuth that takes no NOTICE for the invalid-credentials one
IsBadAuth_Never(m) == FALSE

\* m.Command.Name == "NOTICE" && m.Command.Data == "Improperly formatted auth"
IsBadAuth(m) ==
  m.Command.Name = IRCMsgCmdNotice /\ m.Command.Data = ImproperlyFormattedAuth

\* what one handshake step yields: the bit, the error, and what handle did
InitResult(check, err, out) == [check |-> check, err |-> err, out |-> out]

\* parseInitMessage that swallows the lines of its default case
parseInitMessage_Silent(ev, raw) ==
  LET m == MessageOf(raw)
      name == m.Command.Name
  IN IF m.kind = "panic" THEN InitResult(0, "nil", [NoEffect EXCEPT !.panic = TRUE])
     ELSE IF m.kind = "nil" THEN InitResult(0, "nil", NoEffect)
     ELSE IF name = IRCMsgCmdGlobaluserstate THEN InitResult(128, "nil", handle(ev, m))
     ELSE IF InitBit(name) # 0 THEN InitResult(InitBit(name), "nil", NoEffect)
     ELSE IF IsBadAuth(m) THEN InitResult(0, "ErrInvalidToken", NoEffect)
     ELSE InitResult(0, "nil", NoEffect)

\* the switch of parseInitMessage over the parsed message m
InitMessage(ev, m) ==
  LET name == m.Command.Name
  IN IF m.kind = "panic" THEN InitResult(0, "nil", [NoEffect EXCEPT !.panic = TRUE])
     ELSE IF m.kind = "nil" THEN InitResult(0, "nil", NoEffect)
     ELSE IF name = IRCMsgCmdGlobaluserstate THEN InitResult(128, "nil", handle(ev, m))
     ELSE IF InitBit(name) # 0 THEN InitResult(InitBit(name), "nil", NoEffect)
     ELSE IF IsBadAuth(m) THEN InitResult(0, "ErrInvalidToken", NoEffect)
     ELSE InitResult(0, "nil", handle(ev, m))

\* (t *IRCSession) parseInitMessage: m := t.parseMessage(raw), then the switch
parseInitMessage(ev, raw) == InitMessage(ev, MessageOf(raw))

\* the calls of one message, each with the line it was made for
CallsFor(raw, out) == {[key |-> c.key, ord |-> c.ord, raw |-> raw] : c \in
                         {out.calls[i] : i \in 1..Len(out.calls)}}

\* the state of a handshake loop: exit is "" while it goes on, else "nil",
\* an error, or "panic"; log holds, for each line examined, in the order
\* examined, what examining it did
LoopState(checklist, exit, calls, writes, seen, log) ==
  [checklist |-> checklist, exit |-> exit, calls |-> calls, writes |-> writes,
   seen |-> seen, log |-> log]

\* the log entry of one line
Examined(raw, check, out) ==
  [raw |-> raw, check |-> check, calls |-> out.calls, writes |-> out.writes]

\* the checklist value that ends the handshake
Complete == 255

\* for _, raw := range msgs of (t *IRCSession) waitForInit
RECURSIVE IRCInitLoop(_, _, _)

\* the body of the range loop for the first line of msgs, r being what
\* parseInitMessage returned for it
IRCInitLine(ev, msgs, st, r) ==
  LET cl == BitOr(st.checklist, r.check)
      st1 == LoopState(cl, "", st.calls \cup CallsFor(msgs[1], r.out),
                       st.writes \o r.out.writes, st.seen \cup {msgs[1]},
                       Append(st.log, Examined(msgs[1], r.check, r.out)))
  IN IF r.out.panic THEN [st1 EXCEPT !.exit = "panic"]
     ELSE IF r.err # "nil" THEN [st1 EXCEPT !.exit = r.err]
     ELSE IF cl = Complete THEN [st1 EXCEPT !.exit = "nil"]
     ELSE IRCInitLoop(ev, Tail(msgs), st1)

IRCInitLoop(ev, msgs, st) ==
  IF Len(msgs) = 0 THEN st
  ELSE IRCInitLine(ev, msgs, st, parseInitMessage(ev, msgs[1]))

\* for _, raw := range msgs of waitForInit(s *Session): m.Command.Name of a
\* nil m aborts
RECURSIVE SessionInitLoop(_, _, _)

\* the body of the range loop for the first line of msgs, m being
\* parseMessage(raw)
SessionInitLine(ev, msgs, st, m) ==
  LET st1 == [st EXCEPT !.seen = @ \cup {msgs[1]},
                        !.log = Append(@, Examined(msgs[1], 0, NoEffect))]
  IN IF m.kind # "msg" THEN [st1 EXCEPT !.exit = "panic"]
     ELSE IF m.Command.Name = IRCMsgCmdGlobaluserstate THEN [st1 EXCEPT !.exit = "nil"]
     ELSE IF IsBadAuth(m) THEN [st1 EXCEPT !.exit = "ErrInvalidToken"]
     ELSE SessionInitLoop(ev, Tail(msgs), st1)

SessionInitLoop(ev, msgs, st) ==
  IF Len(msgs) = 0 THEN st
  ELSE SessionInitLine(ev, msgs, st, MessageOf(msgs[1]))

\* parseMessage(m).handle(s), m being what parseMessage returned: a parse
\* that aborts aborts the loop
Handled(ev, m) ==
  IF m.kind = "panic" THEN [NoEffect EXCEPT !.panic = TRUE] ELSE handle(ev, m)

\* a listen that goes through the lines of a buffer from the last to the first
RECURSIVE ListenLoop_Backwards(_, _, _)
ListenLoop_Backwards(ev, msgs, st) ==
  IF Len(msgs) = 0 THEN st
  ELSE
    LET raw == msgs[Len(msgs)]
        m == MessageOf(raw)
        out == IF m.kind = "panic" THEN [NoEffect EXCEPT !.panic = TRUE]
               ELSE handle(ev, m)
        st1 == LoopState(st.checklist, "", st.calls \cup CallsFor(raw, out),
                         st.writes \o out.writes, st.seen \cup {raw},
                         Append(st.log, Examined(raw, 0, out)))
    IN IF out.panic THEN [st1 EXCEPT !.exit = "panic"]
       ELSE ListenLoop_Backwards(ev, SubSeq(msgs, 1, Len(msgs) - 1), st1)

\* for _, m := range msgs of listen: parseMessage(m).handle(s)
RECURSIVE ListenLoop(_, _, _)

\* the body of the range loop for the first line of msgs, out being what
\* parseMessage(m).handle(s) did
ListenLine(ev, msgs, st, out) ==
  LET st1 == LoopState(st.checklist, "", st.calls \cup CallsFor(msgs[1], out),
                       st.writes \o out.writes, st.seen \cup {msgs[1]},
                       Append(st.log, Examined(msgs[1], 0, out)))
  IN IF out.panic THEN [st1 EXCEPT !.exit = "panic"]
     ELSE ListenLoop(ev, Tail(msgs), st1)

ListenLoop(ev, msgs, st) ==
  IF Len(msgs) = 0 THEN st
  ELSE ListenLine(ev, msgs, st, Handled(ev, MessageOf(msgs[1])))

(* ------------------------------ socket -------------------------------- *)

\* the bytes of a run of lines on the wire
RECURSIVE Wire(_)
Wire(lines) ==
  IF Len(lines) = 0 THEN <<>> ELSE lines[1] \o <<CR, LF>> \o Wire(Tail(lines))

\* what readAll may return: an error (deadline, closed, reset), the empty
\* buffer at end of stream, or a buffer that ends with a newline holding one
\* or two of the lines L
Chunks(L) == {Wire(<<a>>) : a \in L} \cup {Wire(<<a, b>>) : a \in L, b \in L}

ReadResults(L) ==
  {[err |-> TRUE, buf |-> <<>>], [err |-> FALSE, buf |-> <<>>]} \cup
  {[err |-> FALSE, buf |-> c] : c \in Chunks(L)}

\* strings.Split(string(buf), "\r\n")
Lines(buf) == Split(buf, <<CR, LF>>)

\* the lines the server sends during and after the handshake
ServerLines == AckLines \cup {LineBadAuth, LinePing, LineRoomState}

\* Lines tabulated over the buffers the server's lines make up
LinesTable == [buf \in Chunks(ServerLines) \cup {<<>>} |-> Lines(buf)]

LinesOf(buf) == LinesTable[buf]

(* ------------------------------- state -------------------------------- *)

VARIABLES
  impl,       \* which of the two session types of the repository runs
  events,     \* s.events: the callbacks registered under each key
  pc,         \* where each thread that calls Connect stands
  result,     \* what each thread's last Connect returned
  mine,       \* the socket each thread's last Connect dialed, 0 if none
  mu,         \* the session mutex: the thread that holds it, 0 if free
  ircConn,    \* s.ircConn / t.conn: 0 for nil, else an index into socks
  racy,       \* per thread: what an unlocked read of "conn != nil" may yield
  socks,      \* every socket dialed so far
  loops,      \* how many read loops were started (go listen)
  alive,      \* how many of them still run
  crashed,    \* a goroutine without a caller to recover it has panicked
  calls,      \* every callback invocation so far, with its line
  inbox,      \* lines the server has sent that no read has returned yet
  served,     \* every line the server has sent
  lastMsg,    \* the message the dispatcher handled last
  lastOut,    \* what handling it did: callbacks invoked, payloads written
  lastRun,    \* the last buffer a loop went through on its own, and the outcome
  sender,     \* per caller of SendCommand: where it stands, what its last call did
  stream,     \* the byte stream of the connection as the read loop meets it
  parsed,     \* the line handed to parseMessage last, and what it returned
  tagged,     \* the tag segment handed to ParseRawIRCTags last, and what it returned
  cfg,        \* the session's credentials: ircToken, clientID, clientSecret, oauth, Prefix
  last,       \* the call made on the session last, and how it ended
  wrapped,    \* the callback OnChannelCommandMessage wrapped, and its last run
  client,     \* the oauth client of the session, the clock, its last GenerateToken
  reader,     \* the bytes of a connection, and where a call of readAll stands
  access      \* who is inside the handler registry: a registration, the dispatcher

connVars ==
  <<impl, pc, result, mine, mu, ircConn, racy, socks, loops, alive, crashed, calls>>

dispVars == <<lastMsg, lastOut, lastRun>>

srvVars == <<inbox, served>>

sendVars == <<sender>>

streamVars == <<stream>>

\* the variables of the functions checked on their own, and the session's
\* credentials, which no step of a connection changes
auxVars == <<parsed, tagged, cfg, last, wrapped, client, reader, access>>

\* the variables of the session, its server and its callers
mainVars == <<events, connVars, dispVars, srvVars, sendVars, streamVars>>

vars == <<events, connVars, dispVars, srvVars, sendVars, streamVars, auxVars>>

MaxHandlers == 4

(* --------------------------- registration ----------------------------- *)

OnChannelJoin ==
  /\ events' = Register(events, IRCMsgCmdJoin, "IRCChannelJoinCallback")

OnChannelNotice ==
  /\ events' = Register(events, IRCMsgCmdNotice, "func(*Session)")

OnChannelLeave ==
  /\ events' = Register(events, IRCMsgCmdPart, "IRCChannelLeaveCallback")

OnChannelMessage ==
  /\ events' = Register(events, IRCMsgCmdPrivmsg, "IRCChannelMessageCallback")

OnGlobalUserState ==
  /\ events' = Register(events, IRCMsgCmdGlobaluserstate, "IRCGlobalUserStateCallback")

OnRoomState ==
  /\ events' = Register(events, IRCMsgCmdRoomstate, "IRCRoomStateCallback")

OnAny ==
  /\ events' = Register(events, AnyKey, "IRCAnyCallback")

(* ----------------------------- connection ----------------------------- *)

MaxDials == 2
MaxWrites == 4

Threads == DOMAIN pc

\* the three lines with NICK sent first
HandshakeCommands_NickFirst ==
  SendCommand(<<"NICK", SP, "-">>)
  \o SendCommand(<<"CAP", SP, "REQ", SP, ":", "twitch.tv/commands", SP,
                   "twitch.tv/membership", SP, "twitch.tv/tags">>)
  \o SendCommand(<<"PASS", SP, "oauth:token">>)

\* the three lines Connect sends after the dial
HandshakeCommands ==
  SendCommand(<<"CAP", SP, "REQ", SP, ":", "twitch.tv/commands", SP,
                "twitch.tv/membership", SP, "twitch.tv/tags">>)
  \o SendCommand(<<"PASS", SP, "oauth:token">>)
  \o SendCommand(<<"NICK", SP, "-">>)

\* a socket right after net.Dial, the three sends and SetReadDeadline(5 s)
NewSocket ==
  [open |-> TRUE, deadline |-> TRUE, written |-> HandshakeCommands,
   checklist |-> 0, sent |-> {}, seen |-> {}]

\* return r (with the deferred Unlock when the lock is held)
Return(t, r) ==
  /\ pc' = [pc EXCEPT ![t] = IF r = "panic" THEN "panicked" ELSE "idle"]
  /\ result' = [result EXCEPT ![t] = r]

\* every write of the handle is an unsynchronized write for the other threads
WriteConn(t, k) ==
  /\ ircConn' = k
  /\ racy' = [u \in Threads |-> IF u = t THEN {k # 0} ELSE racy[u] \cup {k # 0}]

\* Session.Connect that dials whatever the token is
Session_Connect_NoTokenCheck(t) ==
  /\ impl = "Session" /\ ~crashed /\ pc[t] = "idle"
  /\ \E nonNil \in racy[t] :
       IF nonNil THEN Return(t, "ErrAlreadyConnected")
       ELSE pc' = [pc EXCEPT ![t] = "lock"] /\ result' = [result EXCEPT ![t] = "none"]
  /\ mine' = [mine EXCEPT ![t] = 0]
  /\ UNCHANGED <<impl, events, mu, ircConn, racy, socks, loops, alive, crashed, calls>>

\* Session.Connect before the lock: nil at once for an empty token; else the
\* handle is read without the lock
Session_Connect(t) ==
  /\ impl = "Session" /\ ~crashed /\ pc[t] = "idle"
  /\ IF cfg.ircToken = <<>> THEN Return(t, "nil")
     ELSE \E nonNil \in racy[t] :
       IF nonNil THEN Return(t, "ErrAlreadyConnected")
       ELSE pc' = [pc EXCEPT ![t] = "lock"] /\ result' = [result EXCEPT ![t] = "none"]
  /\ mine' = [mine EXCEPT ![t] = 0]
  /\ UNCHANGED <<impl, events, mu, ircConn, racy, socks, loops, alive, crashed, calls>>

\* s.mu.Lock()
Session_Lock(t) ==
  /\ impl = "Session" /\ ~crashed /\ pc[t] = "lock" /\ mu = 0
  /\ mu' = t
  /\ pc' = [pc EXCEPT ![t] = "dial"]
  /\ racy' = [racy EXCEPT ![t] = {ircConn # 0}]
  /\ UNCHANGED <<impl, events, result, mine, ircConn, socks, loops, alive, crashed, calls>>

\* IRCSession.Connect: t.Lock(), then the handle is read under the lock
IRCSession_Connect(t) ==
  /\ impl = "IRCSession" /\ ~crashed /\ pc[t] = "idle" /\ mu = 0
  /\ racy' = [racy EXCEPT ![t] = {ircConn # 0}]
  /\ mine' = [mine EXCEPT ![t] = 0]
  /\ IF ircConn # 0
     THEN Return(t, "ErrAlreadyConnected") /\ mu' = 0
     ELSE /\ pc' = [pc EXCEPT ![t] = "dial"]
          /\ result' = [result EXCEPT ![t] = "none"]
          /\ mu' = t
  /\ UNCHANGED <<impl, events, ircConn, socks, loops, alive, crashed, calls>>

\* net.Dial fails: the handle is assigned Dial's nil
DialFails(t) ==
  /\ ~crashed /\ pc[t] = "dial"
  /\ WriteConn(t, 0)
  /\ Return(t, "ErrDial")
  /\ mu' = 0
  /\ UNCHANGED <<impl, events, mine, socks, loops, alive, crashed, calls>>

\* DialSucceeds with a SendCommand that takes the session lock
DialSucceeds_SendLocks(t) ==
  /\ ~crashed /\ pc[t] = "dial" /\ Len(socks) < MaxDials
  /\ mu = 0
  /\ socks' = Append(socks, NewSocket)
  /\ WriteConn(t, Len(socks) + 1)
  /\ mine' = [mine EXCEPT ![t] = Len(socks) + 1]
  /\ pc' = [pc EXCEPT ![t] = "wait"]
  /\ UNCHANGED <<impl, events, result, mu, loops, alive, crashed, calls>>

\* net.Dial succeeds; CAP REQ, PASS and NICK are sent; waitForInit arms the
\* read deadline
DialSucceeds(t) ==
  /\ ~crashed /\ pc[t] = "dial" /\ Len(socks) < MaxDials
  /\ socks' = Append(socks, NewSocket)
  /\ WriteConn(t, Len(socks) + 1)
  /\ mine' = [mine EXCEPT ![t] = Len(socks) + 1]
  /\ pc' = [pc EXCEPT ![t] = "wait"]
  /\ UNCHANGED <<impl, events, result, mu, loops, alive, crashed, calls>>

\* the set of lines of a buffer
LineSet(buf) == LET ls == LinesOf(buf) IN {ls[i] : i \in 1..Len(ls)} \ {<<>>}

\* the loop state a handshake iteration starts from
Resume(sock) == LoopState(sock.checklist, "", {}, <<>>, sock.seen, <<>>)

\* a handshake that leaves the read deadline as it was
DeadlineAfter_Kept(armed, exit, deferredDeadline) == armed

\* whether the read deadline is armed after a handshake iteration: every
\* return of waitForInit goes through SetReadDeadline(time.Time{}), an abort
\* only where the call is deferred
DeadlineAfter(armed, exit, deferredDeadline) ==
  IF exit = "" THEN armed
  ELSE IF exit = "panic" THEN armed /\ ~deferredDeadline
  ELSE FALSE

\* one iteration of `for { buf, err = readAll(); ... }` in a handshake and
\* what Connect does when waitForInit returns; st is the loop's state after
\* the buffer, deferredDeadline tells whether the deadline is reset by defer
AfterInit(t, rd, st, deferredDeadline) ==
  LET k == ircConn
      exit == IF rd.err THEN "ErrRead" ELSE st.exit
      sock == [socks[k] EXCEPT
                 !.checklist = st.checklist,
                 !.seen = st.seen,
                 !.sent = @ \cup LineSet(rd.buf),
                 !.written = @ \o st.writes,
                 !.deadline = DeadlineAfter(@, exit, deferredDeadline),
                 !.open = @ /\ exit \in {"", "nil", "panic"}]
  IN /\ Len(sock.written) <= MaxWrites
     /\ socks' = [socks EXCEPT ![k] = sock]
     /\ calls' = calls \cup st.calls
     /\ IF exit = ""
        THEN UNCHANGED <<pc, result, mu, loops, alive>>
        ELSE /\ Return(t, exit)
             /\ mu' = 0
             /\ loops' = IF exit = "nil" THEN loops + 1 ELSE loops
             /\ alive' = IF exit = "nil" THEN alive + 1 ELSE alive
     /\ UNCHANGED <<impl, events, mine, ircConn, racy, crashed>>

\* a read on a closed socket that does not fail
CanRead_Always(k, rd) == TRUE

\* a read on a closed socket fails
CanRead(k, rd) == socks[k].open \/ rd.err

\* (t *IRCSession) waitForInit with the end of IRCSession.Connect
IRCSession_waitForInit(t, rd) ==
  /\ impl = "IRCSession" /\ ~crashed /\ pc[t] = "wait" /\ CanRead(ircConn, rd)
  /\ AfterInit(t, rd, IRCInitLoop(events, LinesOf(rd.buf), Resume(socks[ircConn])), FALSE)

\* waitForInit(s *Session) with the end of Session.Connect
waitForInit(t, rd) ==
  /\ impl = "Session" /\ ~crashed /\ pc[t] = "wait" /\ CanRead(ircConn, rd)
  /\ AfterInit(t, rd, SessionInitLoop(events, LinesOf(rd.buf), Resume(socks[ircConn])), TRUE)

\* one iteration of the read loop listen
listen(rd) ==
  /\ ~crashed /\ alive > 0
  /\ IF ircConn = 0
     THEN crashed' = TRUE /\ UNCHANGED <<socks, calls, alive>>
     ELSE
       /\ CanRead(ircConn, rd)
       /\ IF rd.err
          THEN alive' = alive - 1 /\ UNCHANGED <<socks, calls, crashed>>
          ELSE
            LET st == ListenLoop(events, LinesOf(rd.buf), Resume(socks[ircConn]))
            IN /\ Len(socks[ircConn].written) + Len(st.writes) <= MaxWrites
               /\ socks' = [socks EXCEPT ![ircConn].written = @ \o st.writes]
               /\ calls' = calls \cup st.calls
               /\ crashed' = (st.exit = "panic")
               /\ UNCHANGED alive
  /\ UNCHANGED <<impl, events, pc, result, mine, mu, ircConn, racy, loops>>

\* Session.Close
Close ==
  /\ ~crashed /\ ircConn # 0 /\ socks[ircConn].open
  /\ socks' = [socks EXCEPT ![ircConn].open = FALSE]
  /\ UNCHANGED <<impl, events, pc, result, mine, mu, ircConn, racy, loops, alive,
                 crashed, calls>>

\* IRCMessageTags{}: the fields of the model at their zero values
ZeroTags ==
  [BanDuration |-> 0, RoomID |-> <<>>, Mod |-> FALSE,
   Timestamp |-> [set |-> FALSE, ms |-> 0]]

\* ParseRawIRCTags not called yet
Untagged == [pairs |-> <<>>, t |-> ZeroTags]

\* the parts of a line of the grammar
\*   ["@" tags " "] [":" source " "] command [" " arg]* [" :" trailing]
\* an optional part is <<>> when absent and <<part>> when present
NoParts == [tags |-> <<>>, source |-> <<>>, name |-> <<>>, args |-> <<>>, trailing |-> <<>>]

\* parseMessage not called yet
Unparsed == [raw |-> <<>>, built |-> FALSE, parts |-> NoParts, m |-> NilMessage]

\* a connection on which the peer has sent nothing and readAll was not called:
\* sent is all the peer sends, pos counts the bytes conn.Read has returned,
\* start is pos at the last call of readAll, buf its accumulating buffer, got
\* the chunks returned so far, one after the other; eof, err tell how the last call ended, failed
\* whether a call has ended with an error
NoReader ==
  [pc |-> "unserved", sent |-> <<>>, pos |-> 0, start |-> 0, buf |-> <<>>,
   got |-> <<>>, eof |-> FALSE, err |-> FALSE, failed |-> FALSE]

\* nobody is inside s.events: writing is the key a registration call is
\* storing under ("" for none), reading tells whether handle is ranging over
\* the registry, fatal whether the runtime has ended the process
NoAccess == [writing |-> "", reading |-> FALSE, fatal |-> FALSE]

\* a stream the peer has not ended, before the read loop's first iteration:
\* eof tells whether the peer has closed, iter is the parity of the count of
\* the loop's iterations, end is the error that ended the loop
Flowing == [eof |-> FALSE, iter |-> 0, end |-> ""]

\* no buffer gone through yet
NoRun == [kind |-> "none", lines |-> <<>>, st |-> LoopState(0, "", {}, <<>>, {}, <<>>)]

\* &Session{}: no credentials, no oauth client, a nil events map
ZeroSession ==
  [ircToken |-> <<>>, clientID |-> <<>>, clientSecret |-> <<>>, oauth |-> FALSE,
   made |-> FALSE, Prefix |-> <<>>]

\* what SetAPI(clientID, clientSecret) assigns
WithAPI(c, clientID, clientSecret) ==
  [c EXCEPT !.clientID = clientID, !.clientSecret = clientSecret, !.oauth = TRUE]

\* what SetIRC(ircToken) assigns
WithIRC(c, ircToken) ==
  [c EXCEPT !.ircToken = ircToken, !.made = TRUE, !.Prefix = <<"!">>]

\* New(clientID, clientSecret, ircToken)
New(clientID, clientSecret, ircToken) ==
  WithIRC(WithAPI(ZeroSession, clientID, clientSecret), ircToken)

\* NewAPIOnly(clientID, clientSecret)
NewAPIOnly(clientID, clientSecret) == WithAPI(ZeroSession, clientID, clientSecret)

\* NewIRCOnly(ircToken)
NewIRCOnly(ircToken) == WithIRC(ZeroSession, ircToken)

\* Token{}: expiresAt counts seconds, 0 is the zero time.Time
ZeroToken == [Token |-> "", RefreshToken |-> "", ExpiresIn |-> 0, expiresAt |-> 0]

\* GenerateToken not called yet
NoGenerate == [made |-> FALSE, at |-> 0, before |-> ZeroToken, requests |-> <<>>,
               token |-> "", err |-> FALSE]

\* oauth.New as SetAPI calls it, on a clock that starts after the zero time
NewClient == [lastToken |-> ZeroToken, now |-> 1, call |-> NoGenerate]

\* OnChannelCommandMessage not called yet
NoCommand ==
  [on |-> FALSE, cmd |-> <<>>, ignoreCase |-> FALSE, ran |-> FALSE, msg |-> <<>>,
   called |-> FALSE, args |-> <<>>]

\* no call made yet
NoCall == [op |-> "", out |-> "", arg |-> <<>>]

\* registration before the first Connect
MaxEarlyHandlers == 1

Early(register) ==
  /\ socks = <<>> /\ \A t \in Threads : pc[t] = "idle"
  /\ Registered(events) < MaxEarlyHandlers
  /\ register
  /\ UNCHANGED connVars

\* n callers, a server and a session with the credentials c
StateInit(n, c) ==
  /\ impl \in {"IRCSession", "Session"}
  /\ events = NoEvents
  /\ pc = [t \in 1..n |-> "idle"]
  /\ result = [t \in 1..n |-> "none"]
  /\ mine = [t \in 1..n |-> 0]
  /\ mu = 0
  /\ ircConn = 0
  /\ racy = [t \in 1..n |-> {FALSE}]
  /\ socks = <<>>
  /\ loops = 0
  /\ alive = 0
  /\ crashed = FALSE
  /\ calls = {}
  /\ lastMsg = NilMessage
  /\ lastOut = NoEffect
  /\ lastRun = NoRun
  /\ inbox = <<>>
  /\ served = {}
  /\ sender = [a \in Senders |-> NotCalled]
  /\ stream = Flowing
  /\ parsed = Unparsed
  /\ tagged = Untagged
  /\ cfg = c
  /\ last = NoCall
  /\ wrapped = NoCommand
  /\ client = NewClient
  /\ reader = NoReader
  /\ access = NoAccess

\* a session with credentials for the API and for IRC
ConnInit(n) == StateInit(n, New(<<"id">>, <<"secret">>, <<"oauth:token">>))

\* what a read may return when the server sends whatever it likes
ServerReads == ReadResults(ServerLines)

\* a step of the session alone
Only(A) == A /\ UNCHANGED <<dispVars, srvVars, sendVars, streamVars, auxVars>>

Init == ConnInit(1)

Next ==
  \/ Only(Early(OnGlobalUserState))
  \/ Only(Early(OnAny))
  \/ \E t \in Threads : Only(Session_Connect(t))
  \/ \E t \in Threads : Only(Session_Lock(t))
  \/ \E t \in Threads : Only(IRCSession_Connect(t))
  \/ \E t \in Threads : Only(DialFails(t))
  \/ \E t \in Threads : Only(DialSucceeds(t))
  \/ \E t \in Threads, rd \in ServerReads : Only(IRCSession_waitForInit(t, rd))
  \/ \E t \in Threads, rd \in ServerReads : Only(waitForInit(t, rd))
  \/ \E rd \in ServerReads : Only(listen(rd))
  \/ Only(Close)

Spec == Init /\ [][Next]_vars

(* ------------------- the server's welcome, in flight ------------------ *)

MaxInbox == 2

\* the lines of a welcome: the eight acknowledgments and a keep-alive probe
WelcomeLines == AckLines \cup {LinePing}

\* the server writes one line of its welcome, each line once
ServerSend(line) ==
  /\ ircConn # 0 /\ socks[ircConn].open
  /\ Len(inbox) < MaxInbox /\ line \notin served
  /\ inbox' = Append(inbox, line)
  /\ served' = served \cup {line}
  /\ UNCHANGED <<events, connVars, dispVars, sendVars, streamVars, auxVars>>

\* readAll returns the first n lines in flight
Delivered(n) == [err |-> FALSE, buf |-> Wire(SubSeq(inbox, 1, n))]

Take(n) ==
  /\ inbox' = SubSeq(inbox, n + 1, Len(inbox))
  /\ UNCHANGED <<served, dispVars, sendVars, streamVars, auxVars>>

\* a buffer holds one or two lines, as in Chunks
ChunkSizes == {n \in {1, 2} : n <= Len(inbox)}

\* readAll returns an error (deadline, closed, reset)
ReadError == [err |-> TRUE, buf |-> <<>>]

WelcomeNext ==
  \/ \E t \in Threads : Only(Session_Connect(t))
  \/ \E t \in Threads : Only(Session_Lock(t))
  \/ \E t \in Threads : Only(IRCSession_Connect(t))
  \/ \E t \in Threads : Only(DialFails(t))
  \/ \E t \in Threads : Only(DialSucceeds(t))
  \/ \E line \in WelcomeLines : ServerSend(line)
  \/ \E t \in Threads, n \in ChunkSizes : IRCSession_waitForInit(t, Delivered(n)) /\ Take(n)
  \/ \E t \in Threads, n \in ChunkSizes : waitForInit(t, Delivered(n)) /\ Take(n)
  \/ \E t \in Threads : Only(IRCSession_waitForInit(t, ReadError))
  \/ \E t \in Threads : Only(waitForInit(t, ReadError))
  \/ \E n \in ChunkSizes : listen(Delivered(n)) /\ Take(n)
  \/ Only(listen(ReadError))

SpecWelcome == Init /\ [][WelcomeNext]_vars

(* ---------------------- concurrent Connect calls ---------------------- *)

NThreads == 2

\* what a read may return here: an error or one acknowledgment line
RaceReads == {ReadError} \cup {[err |-> FALSE, buf |-> Wire(<<a>>)] : a \in AckLines}

RaceInit == ConnInit(NThreads)

RaceNext ==
  \/ \E t \in Threads : Only(Session_Connect(t))
  \/ \E t \in Threads : Only(Session_Lock(t))
  \/ \E t \in Threads : Only(IRCSession_Connect(t))
  \/ \E t \in Threads : Only(DialFails(t))
  \/ \E t \in Threads : Only(DialSucceeds(t))
  \/ \E t \in Threads, rd \in RaceReads : Only(IRCSession_waitForInit(t, rd))
  \/ \E t \in Threads, rd \in RaceReads : Only(waitForInit(t, rd))
  \/ \E rd \in RaceReads : Only(listen(rd))
  \/ Only(Close)

SpecRace == RaceInit /\ [][RaceNext]_vars

(* ------------------------ SendCommand calls -------------------------- *)

MaxLen == 2

\* the credentials a PASS line may carry
Tokens == {"oauth:a", "oauth:b"}

\* fmt.Sprintf("PASS %s", token)
PassLine(token) == MsgCmdPass \o <<SP, token>>

RECURSIVE Strings(_, _)
Strings(alphabet, n) ==
  IF n = 0 THEN {<<>>}
  ELSE LET shorter == Strings(alphabet, n - 1)
       IN shorter \cup {Append(w, c) : w \in shorter, c \in alphabet}

\* the commands handed to SendCommand
Commands == Strings({"x", CR, LF}, MaxLen) \cup {PassLine(token) : token \in Tokens}

\* SendCommand up to conn.Write: an empty command returns, a nil conn aborts
Call(a, cmd) ==
  /\ ~crashed /\ sender[a].pc \in {"idle", "done"}
  /\ sender' = [sender EXCEPT ![a] =
       IF SendCommand(cmd) = <<>> THEN [NotCalled EXCEPT !.pc = "done", !.cmd = cmd]
       ELSE IF ircConn = 0 THEN [NotCalled EXCEPT !.pc = "panicked", !.cmd = cmd]
       ELSE [NotCalled EXCEPT !.pc = "write", !.cmd = cmd]]
  /\ UNCHANGED <<events, connVars, dispVars, srvVars, streamVars, auxVars>>

\* conn.Write returns and SendCommand logs; a write on a closed socket fails
WriteReturns(a, ok) ==
  /\ ~crashed /\ sender[a].pc = "write"
  /\ ok => ircConn # 0 /\ socks[ircConn].open
  /\ LET line == SendCommand(sender[a].cmd)[1]
     IN sender' = [sender EXCEPT ![a] =
          [@ EXCEPT !.pc = "done", !.ok = ok,
                    !.bytes = IF ok THEN <<line>> ELSE <<>>,
                    !.log = <<LogOf(line, ok)>>]]
  /\ UNCHANGED <<events, connVars, dispVars, srvVars, streamVars, auxVars>>

\* what a read returns here: an error or the line that ends the handshake
SendReads == {ReadError, [err |-> FALSE, buf |-> Wire(<<LineGlobalUserState>>)]}

SendInit == ConnInit(1) /\ impl = "Session"

SendNext ==
  \/ \E t \in Threads : Only(Session_Connect(t))
  \/ \E t \in Threads : Only(Session_Lock(t))
  \/ \E t \in Threads : Only(DialFails(t))
  \/ \E t \in Threads : Only(DialSucceeds(t))
  \/ \E t \in Threads, rd \in SendReads : Only(waitForInit(t, rd))
  \/ Only(Close)
  \/ \E a \in Senders, cmd \in Commands : Call(a, cmd)
  \/ \E a \in Senders, ok \in BOOLEAN : WriteReturns(a, ok)

SpecSend == SendInit /\ [][SendNext]_vars

(* ---------------- the read loop and the end of the stream ------------- *)

\* readAll at end of stream: conn.Read gives io.EOF, readAll breaks out of
\* its loop and returns the buffer, here empty, and no error
EndOfStream == [err |-> FALSE, buf |-> <<>>]

\* what a read of the loop returns here
StreamReads ==
  {ReadError, EndOfStream} \cup
  {[err |-> FALSE, buf |-> Wire(<<l>>)] : l \in {LinePing, LineRoomState}}

\* the peer closes the connection under the running read loop: every further
\* read signals end of stream
PeerCloses ==
  /\ ~crashed /\ alive > 0 /\ ircConn # 0 /\ socks[ircConn].open /\ ~stream.eof
  /\ stream' = [stream EXCEPT !.eof = TRUE]
  /\ UNCHANGED <<events, connVars, dispVars, srvVars, sendVars, auxVars>>

\* one iteration of listen on this stream; an error ends the loop through
\* the errors.Is(err, net.ErrClosed) branch or through the err != nil branch
Iterate(rd) ==
  /\ ircConn # 0
  /\ stream.eof /\ socks[ircConn].open => rd = EndOfStream
  /\ listen(rd)
  /\ stream' = [stream EXCEPT
       !.iter = 1 - @,
       !.end = IF ~rd.err THEN @
               ELSE IF socks[ircConn].open THEN "error" ELSE "ErrClosed"]
  /\ UNCHANGED <<dispVars, srvVars, sendVars, auxVars>>

\* an iteration whose read returns at once: the peer has closed the stream
\* or the connection is closed
PromptRead ==
  /\ ircConn # 0
  /\ stream.eof \/ ~socks[ircConn].open
  /\ \E rd \in StreamReads : Iterate(rd)

StreamInit == ConnInit(1) /\ impl = "Session"

StreamNext ==
  \/ Only(Early(OnRoomState))
  \/ Only(Early(OnAny))
  \/ \E t \in Threads : Only(Session_Connect(t))
  \/ \E t \in Threads : Only(Session_Lock(t))
  \/ \E t \in Threads : Only(DialFails(t))
  \/ \E t \in Threads : Only(DialSucceeds(t))
  \/ \E t \in Threads, rd \in SendReads : Only(waitForInit(t, rd))
  \/ Only(Close)
  \/ PeerCloses
  \/ \E rd \in StreamReads : Iterate(rd)

\* the read loop is a goroutine of its own: when its read returns at once,
\* it goes through its next iteration
SpecStream == StreamInit /\ [][StreamNext]_vars /\ WF_vars(PromptRead)

(* ------------------- the dispatcher on its own ------------------------ *)

\* the lines the read loop may hand to the dispatcher
DispatchLines ==
  {<<>>, LinePing, LineJoin, LineJoinBare, LinePart, LinePrivmsg, LineNotice,
   LineBadAuth, LineGlobalUserState, LineRoomState, LineReconnect, LineUserState,
   Line001, LineCap}

\* parseMessage(m).handle(s) for one line
Dispatch(raw) ==
  /\ lastMsg' = MessageOf(raw)
  /\ lastOut' = handle(events, lastMsg')
  /\ UNCHANGED <<events, connVars, srvVars, sendVars, streamVars, auxVars, lastRun>>

DispatchInit == ConnInit(1) /\ impl = "Session"

\* registration at any time, a read loop dispatching
Late(register) ==
  /\ Registered(events) < MaxHandlers
  /\ register
  /\ UNCHANGED <<connVars, dispVars, srvVars, sendVars, streamVars, auxVars>>

DispatchNext ==
  \/ Late(OnChannelJoin)
  \/ Late(OnChannelNotice)
  \/ Late(OnChannelLeave)
  \/ Late(OnChannelMessage)
  \/ Late(OnGlobalUserState)
  \/ Late(OnRoomState)
  \/ Late(OnAny)
  \/ \E raw \in DispatchLines : Dispatch(raw)

SpecDispatch == DispatchInit /\ [][DispatchNext]_vars

(* ----------------------- one buffer in a loop ------------------------ *)

\* the checklists a buffer may find: nothing yet, or all but GLOBALUSERSTATE
StartChecklists == {0, Complete - 128}

\* the non-empty buffers readAll may return
Buffers == {rd.buf : rd \in {r \in ServerReads : ~r.err /\ r.buf # <<>>}}

\* the range loop of IRCSession.waitForInit over one buffer, the first the
\* behaviour goes through
InitStep(buf, start) ==
  /\ impl = "IRCSession" /\ lastRun = NoRun
  /\ lastRun' = [kind |-> "init", lines |-> LinesOf(buf),
                 st |-> IRCInitLoop(events, LinesOf(buf),
                                    LoopState(start, "", {}, <<>>, {}, <<>>))]
  /\ UNCHANGED <<events, connVars, srvVars, sendVars, streamVars, auxVars, lastMsg, lastOut>>

\* the range loop of waitForInit(s *Session) over one buffer
SessionInitStep(buf) ==
  /\ impl = "Session" /\ lastRun = NoRun
  /\ lastRun' = [kind |-> "sessionInit", lines |-> LinesOf(buf),
                 st |-> SessionInitLoop(events, LinesOf(buf),
                                        LoopState(0, "", {}, <<>>, {}, <<>>))]
  /\ UNCHANGED <<events, connVars, srvVars, sendVars, streamVars, auxVars, lastMsg, lastOut>>

\* the range loop of listen over one buffer
ListenStep(buf) ==
  /\ lastRun = NoRun
  /\ lastRun' = [kind |-> "listen", lines |-> LinesOf(buf),
                 st |-> ListenLoop(events, LinesOf(buf),
                                   LoopState(0, "", {}, <<>>, {}, <<>>))]
  /\ UNCHANGED <<events, connVars, srvVars, sendVars, streamVars, auxVars, lastMsg, lastOut>>

LoopNext ==
  \/ Late(OnGlobalUserState)
  \/ Late(OnRoomState)
  \/ Late(OnAny)
  \/ \E buf \in Buffers, start \in StartChecklists : InitStep(buf, start)
  \/ \E buf \in Buffers : SessionInitStep(buf)
  \/ \E buf \in Buffers : ListenStep(buf)

SpecLoop == Init /\ [][LoopNext]_vars

(* ------------------------ parseMessage on its own --------------------- *)

MaxRaw == 3

\* every line of up to MaxRaw symbols over the bytes parseMessage looks at
\* and one word
RawLines == Strings({"@", ":", SP, "!", "w"}, MaxRaw)

TagSegments == {<<>>, << <<"id=7">> >>}

SourceParts ==
  {<<>>,
   <<[nick |-> <<>>, host |-> <<"tmi.twitch.tv">>]>>,
   <<[nick |-> <<"foo">>, host |-> <<"bar", "@", "bar.tmi.twitch.tv">>]>>}

NameParts == {<<"PRIVMSG">>, <<"PING">>, <<"001">>}

ArgParts == {<<>>, << <<"#bar">> >>, << <<"#bar">>, <<"x">> >>}

TrailingParts ==
  {<<>>, << <<>> >>, << <<"Hello">> >>, << <<"Hello", SP, "world">> >>,
   << <<"a", SP, ":", "b">> >>, << <<":", "x">> >>, << <<"a", ":", "b">> >>,
   << <<SP, "x">> >>, << <<"a", SP, SP, ":">> >>}

GrammarLines ==
  [tags : TagSegments, source : SourceParts, name : NameParts, args : ArgParts,
   trailing : TrailingParts]

\* the source segment of a line: nick!host, or the host alone
SourceSegment(src) == IF src.nick = <<>> THEN src.host ELSE src.nick \o <<"!">> \o src.host

RECURSIVE Middle(_)
Middle(args) == IF Len(args) = 0 THEN <<>> ELSE <<SP>> \o args[1] \o Middle(Tail(args))

\* the raw line of the grammar made of the parts p
Serialize(p) ==
  (IF p.tags = <<>> THEN <<>> ELSE <<"@">> \o p.tags[1] \o <<SP>>)
  \o (IF p.source = <<>> THEN <<>> ELSE <<":">> \o SourceSegment(p.source[1]) \o <<SP>>)
  \o p.name \o Middle(p.args)
  \o (IF p.trailing = <<>> THEN <<>> ELSE <<SP, ":">> \o p.trailing[1])

\* parseMessage(raw) for a line as it comes
ParseRaw(raw) ==
  /\ parsed = Unparsed
  /\ parsed' = [raw |-> raw, built |-> FALSE, parts |-> NoParts, m |-> parseMessage(raw)]
  /\ UNCHANGED <<mainVars, tagged, cfg, last, wrapped, client, reader, access>>

\* parseMessage for a line of the grammar
ParseBuilt(p) ==
  /\ parsed = Unparsed
  /\ parsed' = [raw |-> Serialize(p), built |-> TRUE, parts |-> p,
                m |-> parseMessage(Serialize(p))]
  /\ UNCHANGED <<mainVars, tagged, cfg, last, wrapped, client, reader, access>>

ParseNext ==
  \/ \E raw \in RawLines : ParseRaw(raw)
  \/ \E p \in GrammarLines : ParseBuilt(p)

SpecParse == Init /\ [][ParseNext]_vars

(* ---------------------- the calls on a Session ------------------------ *)

IRCTokens == {<<>>, <<"oauth:token">>}

\* the credentials a session is made with, and those SetAPI is called with
FirstAPI == <<<<"id">>, <<"secret">>>>
SecondAPI == <<<<"id2">>, <<"secret2">>>>

\* the sessions the three constructors return
NewSessions ==
  {New(FirstAPI[1], FirstAPI[2], tok) : tok \in IRCTokens}
  \cup {NewAPIOnly(FirstAPI[1], FirstAPI[2])}
  \cup {NewIRCOnly(tok) : tok \in IRCTokens}

\* the reads of this specification: an error, a rejected login, the welcome
\* in four buffers, a keep-alive probe and a state update
SessionReads ==
  {ReadError, [err |-> FALSE, buf |-> Wire(<<LineBadAuth>>)],
   [err |-> FALSE, buf |-> Wire(<<LineCap, Line001>>)],
   [err |-> FALSE, buf |-> Wire(<<Line002, Line003>>)],
   [err |-> FALSE, buf |-> Wire(<<Line004, Line375>>)],
   [err |-> FALSE, buf |-> Wire(<<Line372, LineGlobalUserState>>)],
   [err |-> FALSE, buf |-> Wire(<<LinePing, LineRoomState>>)]}

\* the one caller of this specification is between two calls
Idle == ~crashed /\ \A t \in Threads : pc[t] = "idle"

Called(op, out, arg) == last' = [op |-> op, out |-> out, arg |-> arg]

\* a step of this specification that is no step of a connection
Outside ==
  UNCHANGED <<dispVars, srvVars, sendVars, streamVars, parsed, tagged, wrapped, client,
              reader, access>>

\* a registration call: an assignment to an entry of a nil map panics
On(register) ==
  /\ Idle /\ Registered(events) < MaxHandlers
  /\ IF cfg.made THEN register /\ Called("On", "", <<>>)
     ELSE UNCHANGED events /\ Called("On", "panic", <<>>)
  /\ UNCHANGED <<connVars, cfg>>
  /\ Outside

\* Session.SetIRC
SetIRC(ircToken) ==
  /\ Idle
  /\ IF ircConn # 0
     THEN UNCHANGED <<events, cfg>> /\ Called("SetIRC", "panic", <<ircToken>>)
     ELSE /\ cfg' = WithIRC(cfg, ircToken)
          /\ events' = NoEvents
          /\ Called("SetIRC", "", <<ircToken>>)
  /\ UNCHANGED connVars
  /\ Outside

\* Session.SetAPI
SetAPI(clientID, clientSecret) ==
  /\ Idle
  /\ IF cfg.oauth \/ ircConn # 0
     THEN UNCHANGED cfg /\ Called("SetAPI", "panic", <<clientID, clientSecret>>)
     ELSE /\ cfg' = WithAPI(cfg, clientID, clientSecret)
          /\ Called("SetAPI", "", <<clientID, clientSecret>>)
  /\ UNCHANGED <<events, connVars>>
  /\ Outside

\* Session.Connect, up to its first return or the lock
Connect(t) ==
  /\ Session_Connect(t)
  /\ Called("Connect", "", <<>>)
  /\ UNCHANGED cfg
  /\ Outside

\* Session.Close
SessionClose ==
  /\ Idle
  /\ Close
  /\ Called("Close", "", <<>>)
  /\ UNCHANGED cfg
  /\ Outside

SessionInit == \E c \in NewSessions : StateInit(1, c) /\ impl = "Session"

SessionNext ==
  \/ On(OnChannelMessage)
  \/ On(OnAny)
  \/ \E tok \in IRCTokens : SetIRC(tok)
  \/ SetAPI(SecondAPI[1], SecondAPI[2])
  \/ \E t \in Threads : Connect(t)
  \/ \E t \in Threads : Only(Session_Lock(t))
  \/ \E t \in Threads : Only(DialFails(t))
  \/ \E t \in Threads : Only(DialSucceeds(t))
  \/ \E t \in Threads, rd \in SessionReads : Only(waitForInit(t, rd))
  \/ \E rd \in SessionReads : Only(listen(rd))
  \/ SessionClose

SpecSession == SessionInit /\ [][SessionNext]_vars

(* -------------------- OnChannelCommandMessage ------------------------- *)
(* The text of a channel message is a sequence of characters here: the     *)
(* callback looks at its spaces, at the prefix and at the case of letters. *)

MaxText == 4

\* strings.ToLower on the letters of the model
ToLower(str) ==
  [i \in 1..Len(str) |-> CASE str[i] = "F" -> "f" [] str[i] = "P" -> "p" [] OTHER -> str[i]]

\* strings.CutPrefix
CutPrefix(str, prefix) ==
  IF HasPrefix(str, prefix)
  THEN [after |-> SubSeq(str, Len(prefix) + 1, Len(str)), found |-> TRUE]
  ELSE [after |-> str, found |-> FALSE]

\* the texts of a channel message
Texts == Strings({"!", "p", "P", "f", "F", SP}, MaxText)

\* the commands a callback is registered for
CommandNames == {<<"f">>, <<"F">>, <<"f", "f">>}

\* the values of s.Prefix: the one SetIRC assigns and two the user assigns
Prefixes == {<<"!">>, <<"p">>, <<>>}

\* the positional arguments of a PRIVMSG line: a channel, or none
Channels == {<<SP, "#bar">>, <<>>}

\* the PRIVMSG line that carries the text
PrivmsgLine(channel, msg) == User \o <<"PRIVMSG">> \o channel \o <<SP, ":">> \o msg

\* the function OnChannelCommandMessage hands to OnChannelMessage, called
\* with the text msg while s.Prefix is prefix: whether it calls the
\* callback, and with which arguments
CommandCallback(w, prefix, msg) ==
  LET args == Split(msg, <<SP>>)
      cut == CutPrefix(args[1], prefix)
      msgCommand == IF w.ignoreCase THEN ToLower(cut.after) ELSE cut.after
  IN IF ~cut.found \/ msgCommand # w.cmd
     THEN [w EXCEPT !.ran = TRUE, !.msg = msg]
     ELSE [w EXCEPT !.ran = TRUE, !.msg = msg, !.called = TRUE, !.args = Tail(args)]

\* OnChannelCommandMessage(cmd, ignoreCase, callback)
OnChannelCommandMessage(cmd, ignoreCase) ==
  /\ ~wrapped.on
  /\ wrapped' = [wrapped EXCEPT !.on = TRUE, !.ignoreCase = ignoreCase,
                                !.cmd = IF ignoreCase THEN ToLower(cmd) ELSE cmd]
  /\ OnChannelMessage
  /\ UNCHANGED <<connVars, dispVars, srvVars, sendVars, streamVars, parsed, tagged, cfg,
                 last, client, reader, access>>

\* the read loop dispatches a PRIVMSG with the text msg: the dispatcher calls
\* the registered function with m.Command.Data
CommandDispatch(channel, msg) ==
  /\ wrapped.on /\ ~wrapped.ran
  /\ lastMsg' = parseMessage(PrivmsgLine(channel, msg))
  /\ lastOut' = handle(events, lastMsg')
  /\ wrapped' = IF Len(lastOut'.calls) = 0 THEN [wrapped EXCEPT !.ran = TRUE, !.msg = msg]
                ELSE CommandCallback(wrapped, cfg.Prefix, lastMsg'.Command.Data)
  /\ UNCHANGED <<events, connVars, srvVars, sendVars, streamVars, parsed, tagged, cfg,
                 last, lastRun, client, reader, access>>

\* the user has assigned s.Prefix
CommandInit ==
  \E prefix \in Prefixes :
    /\ StateInit(1, [NewIRCOnly(<<"oauth:token">>) EXCEPT !.Prefix = prefix])
    /\ impl = "Session"

CommandNext ==
  \/ \E cmd \in CommandNames, ignoreCase \in BOOLEAN : OnChannelCommandMessage(cmd, ignoreCase)
  \/ \E channel \in Channels, msg \in Texts : CommandDispatch(channel, msg)

SpecCommand == CommandInit /\ [][CommandNext]_vars

(* ------------------------ oauth.GenerateToken ------------------------- *)

MaxTime == 3
MaxExpiresIn == 2

\* what the token endpoint may answer: no answer (a transport or read
\* error), a status other than 200, a 200 with a body that is no JSON, a 200
\* with a token
Responses ==
  {[kind |-> k, t |-> ZeroToken] : k \in {"error", "status", "garbage"}}
  \cup {[kind |-> "ok",
         t |-> [Token |-> a, RefreshToken |-> r, ExpiresIn |-> e, expiresAt |-> 0]] :
          a \in {"a", "b"}, r \in {"", "r2"}, e \in 0..MaxExpiresIn}

\* c.lastToken.expiresAt.After(time.Now()) turned around
Fresh_Before(lastToken, now) == lastToken.expiresAt < now

\* c.lastToken.expiresAt.After(time.Now())
Fresh(lastToken, now) == lastToken.expiresAt > now

\* the form of generateFromRefreshToken or of generateFromCredentials
Grant(lastToken) ==
  IF lastToken.RefreshToken # ""
  THEN [grant_type |-> "refresh_token", refresh_token |-> lastToken.RefreshToken]
  ELSE [grant_type |-> "client_credentials", refresh_token |-> ""]

\* tokenRequest: the token cached afterwards and what is returned
tokenRequest(lastToken, now, resp) ==
  IF resp.kind \in {"error", "status"}
  THEN [lastToken |-> lastToken, token |-> "", err |-> TRUE]
  ELSE LET t == [resp.t EXCEPT !.expiresAt = now + resp.t.ExpiresIn]
       IN [lastToken |-> t, token |-> t.Token, err |-> resp.kind = "garbage"]

\* Client.GenerateToken
GenerateToken(resp) ==
  /\ client' =
       IF Fresh(client.lastToken, client.now)
       THEN [client EXCEPT !.call = [made |-> TRUE, at |-> client.now,
                                     before |-> client.lastToken, requests |-> <<>>,
                                     token |-> client.lastToken.Token, err |-> FALSE]]
       ELSE LET r == tokenRequest(client.lastToken, client.now, resp)
            IN [client EXCEPT
                  !.lastToken = r.lastToken,
                  !.call = [made |-> TRUE, at |-> client.now, before |-> client.lastToken,
                            requests |-> <<Grant(client.lastToken)>>,
                            token |-> r.token, err |-> r.err]]
  /\ UNCHANGED <<mainVars, parsed, tagged, cfg, last, wrapped, reader, access>>

\* Client.SetRefreshToken
SetRefreshToken(refreshToken) ==
  /\ client' = [client EXCEPT !.lastToken = [ZeroToken EXCEPT !.RefreshToken = refreshToken]]
  /\ UNCHANGED <<mainVars, parsed, tagged, cfg, last, wrapped, reader, access>>

\* a second passes
Tick ==
  /\ client.now < MaxTime
  /\ client' = [client EXCEPT !.now = @ + 1]
  /\ UNCHANGED <<mainVars, parsed, tagged, cfg, last, wrapped, reader, access>>

OAuthNext ==
  \/ \E resp \in Responses : GenerateToken(resp)
  \/ SetRefreshToken("r1")
  \/ Tick

SpecOAuth == Init /\ [][OAuthNext]_vars

(* ----------------------- ParseRawIRCTags on its own -------------------- *)
(* In a tag segment the bytes the code looks at are ";" and "="; a value   *)
(* is a run of symbols, a number a run of digits.                          *)

Digits == {"0", "1", "2", "3", "4", "5", "6", "7", "8", "9"}

DigitValue(d) ==
  CASE d = "0" -> 0 [] d = "1" -> 1 [] d = "2" -> 2 [] d = "3" -> 3 [] d = "4" -> 4
    [] d = "5" -> 5 [] d = "6" -> 6 [] d = "7" -> 7 [] d = "8" -> 8 [] d = "9" -> 9

IsDigits(v) == Len(v) > 0 /\ \A i \in 1..Len(v) : v[i] \in Digits

\* strconv.Atoi of a run of digits
RECURSIVE Atoi(_)
Atoi(v) ==
  IF Len(v) = 0 THEN 0
  ELSE 10 * Atoi(SubSeq(v, 1, Len(v) - 1)) + DigitValue(v[Len(v)])

\* the kind of the struct field with the json tag key, "" if there is none
FieldKind(key) ==
  CASE key = <<"ban-duration">> -> "Int"
    [] key = <<"room-id">> -> "String"
    [] key = <<"mod">> -> "Bool"
    [] key = <<"tmi-sent-ts">> -> "Time"
    [] OTHER -> ""

\* a JSON value as json.Unmarshal sees it: a string, a number, a boolean,
\* a string in RFC 3339 form (n its seconds since the epoch), or text that
\* is no JSON value
JSON(j, s, n) == [j |-> j, s |-> s, n |-> n]

\* whether the text is a JSON number: digits without a leading zero
IsNumber(v) == IsDigits(v) /\ (Len(v) = 1 \/ v[1] # "0")

NanosPerSecond == 1000000000

\* time.Unix(0, int64(ts)).Format(time.RFC3339): ts counts nanoseconds and
\* the format keeps whole seconds
UnixFormat(ts) == JSON("rfc3339", <<>>, ts \div NanosPerSecond)

\* formatRawIRCTag: the member "key":value made of one pair
formatRawIRCTag(raw) ==
  LET tagPair == Split(raw, <<"=">>)
  IN IF Len(tagPair) # 2 THEN [key |-> raw, val |-> JSON("string", <<>>, 0)]
     ELSE
       [key |-> tagPair[1],
        val |-> CASE FieldKind(tagPair[1]) = "Int" ->
                       IF IsNumber(tagPair[2]) THEN JSON("number", <<>>, Atoi(tagPair[2]))
                       ELSE JSON("garbage", tagPair[2], 0)
                  [] FieldKind(tagPair[1]) = "Bool" ->
                       JSON("bool", <<>>, IF tagPair[2] \in {<<"1">>, <<"true">>} THEN 1 ELSE 0)
                  [] FieldKind(tagPair[1]) = "Time" ->
                       IF IsDigits(tagPair[2]) THEN UnixFormat(Atoi(tagPair[2]))
                       ELSE JSON("string", tagPair[2], 0)
                  [] OTHER -> JSON("string", tagPair[2], 0)]

\* json.Unmarshal of one member into t: a value that does not fit its field
\* is skipped and reported, an unknown key is skipped
SetField(u, member) ==
  LET kind == FieldKind(member.key)
      val == member.val
      fits == \/ kind = "Int" /\ val.j = "number"
              \/ kind = "String" /\ val.j = "string"
              \/ kind = "Bool" /\ val.j = "bool"
              \/ kind = "Time" /\ val.j = "rfc3339"
  IN IF kind = "" THEN u
     ELSE IF ~fits THEN [u EXCEPT !.err = TRUE]
     ELSE [u EXCEPT !.t =
             CASE kind = "Int" -> [@ EXCEPT !.BanDuration = val.n]
               [] kind = "String" -> [@ EXCEPT !.RoomID = val.s]
               [] kind = "Bool" -> [@ EXCEPT !.Mod = (val.n = 1)]
               [] kind = "Time" -> [@ EXCEPT !.Timestamp = [set |-> TRUE, ms |-> val.n * 1000]]]

RECURSIVE SetFields(_, _)
SetFields(u, members) ==
  IF Len(members) = 0 THEN u
  ELSE SetFields(SetField(u, members[1]), Tail(members))

\* json.Unmarshal of the object: text that is not JSON decodes nothing
Unmarshal(members) ==
  IF \E i \in 1..Len(members) : members[i].val.j = "garbage"
  THEN [err |-> TRUE, t |-> ZeroTags]
  ELSE SetFields([err |-> FALSE, t |-> ZeroTags], members)

\* what ParseRawIRCTags returns for the outcome of json.Unmarshal
Decoded(u) == IF u.err THEN ZeroTags ELSE u.t

\* ParseRawIRCTags of the segment made of the pairs
ParseRawIRCTags(raw) ==
  LET parts == Split(raw, <<";">>)
  IN Decoded(Unmarshal([i \in 1..Len(parts) |-> formatRawIRCTag(parts[i])]))

MaxPairs == 2

\* pairs that decode into their field when they stand alone
GoodPairs ==
  {<<"ban-duration", "=", "5">>, <<"room-id", "=", "1", "2">>, <<"mod", "=", "1">>}

TimePairs ==
  {<<"tmi-sent-ts", "=", "0">>, <<"tmi-sent-ts", "=", "1", "0", "0", "0">>,
   <<"tmi-sent-ts", "=", "2", "0", "0", "0", "0", "0", "0", "0", "0", "0">>}

\* no "=", more than one "=", a value that is no number for an integer key,
\* an empty value for an integer key, a timestamp that is no number
BadPairs ==
  {<<"foo">>, <<"ban-duration">>, <<"foo", "=", "1", "=", "2">>,
   <<"ban-duration", "=", "abc">>, <<"ban-duration", "=">>,
   <<"tmi-sent-ts", "=", "abc">>}

TagPairs == GoodPairs \cup TimePairs \cup BadPairs

\* the segments of 1 to MaxPairs pairs
PairLists == UNION {[1..n -> TagPairs] : n \in 1..MaxPairs}

Tag(pairs) ==
  /\ tagged = Untagged
  /\ tagged' = [pairs |-> pairs, t |-> ParseRawIRCTags(Join(pairs, <<";">>))]
  /\ UNCHANGED <<mainVars, parsed, cfg, last, wrapped, client, reader, access>>

TagNext == \E pairs \in PairLists : Tag(pairs)

SpecTags == Init /\ [][TagNext]_vars

(* --------------------------- readAll on its own ----------------------- *)
(* A byte is LF, CR or any other byte; readAll looks at LF only.           *)

\* the longest stream the peer sends
MaxSent == 4

\* len(b): the most one conn.Read returns
MaxRead == 2

Bytes == {"a", CR, LF}

Streams ==
  UNION {[1..n -> Bytes] : n \in 1..MaxSent}

\* the peer's bytes for this connection
Serve(sent) ==
  /\ reader.pc = "unserved"
  /\ reader' = [reader EXCEPT !.pc = "idle", !.sent = sent]
  /\ UNCHANGED <<mainVars, parsed, tagged, cfg, last, wrapped, client, access>>

\* buf := make([]byte, 0) at the call of readAll
ReadAllCall ==
  /\ reader.pc \in {"idle", "returned"}
  /\ reader' = [reader EXCEPT !.pc = "reading", !.start = reader.pos, !.buf = <<>>,
                              !.eof = FALSE, !.err = FALSE]
  /\ UNCHANGED <<mainVars, parsed, tagged, cfg, last, wrapped, client, access>>

\* a readAll that returns after every read
EndsLine_Always(buf) == TRUE

\* buf[len(buf)-1] == '\n'
EndsLine(buf) == buf[Len(buf)] = LF

\* one iteration of the loop of readAll in which conn.Read returns n bytes
ConnRead(n) ==
  /\ reader.pc = "reading"
  /\ n >= 1 /\ reader.pos + n <= Len(reader.sent)
  /\ LET buf == reader.buf \o SubSeq(reader.sent, reader.pos + 1, reader.pos + n)
         done == EndsLine(buf)
     IN reader' = [reader EXCEPT !.buf = buf, !.pos = @ + n,
                                 !.pc = IF done THEN "returned" ELSE @,
                                 !.got = IF done THEN @ \o buf ELSE @]
  /\ UNCHANGED <<mainVars, parsed, tagged, cfg, last, wrapped, client, access>>

\* conn.Read returns io.EOF: the peer has closed and every byte was read
ConnEOF ==
  /\ reader.pc = "reading"
  /\ reader.pos = Len(reader.sent)
  /\ reader' = [reader EXCEPT !.pc = "returned", !.eof = TRUE,
                              !.got = @ \o reader.buf]
  /\ UNCHANGED <<mainVars, parsed, tagged, cfg, last, wrapped, client, access>>

\* conn.Read returns another error: return []byte{}, err
ConnErr ==
  /\ reader.pc = "reading"
  /\ reader' = [reader EXCEPT !.pc = "returned", !.buf = <<>>, !.err = TRUE,
                              !.failed = TRUE]
  /\ UNCHANGED <<mainVars, parsed, tagged, cfg, last, wrapped, client, access>>

ReadNext ==
  \/ \E sent \in Streams : Serve(sent)
  \/ ReadAllCall
  \/ \E n \in 1..MaxRead : ConnRead(n)
  \/ ConnEOF
  \/ ConnErr

SpecRead == Init /\ [][ReadNext]_vars

(* ------------- registration while the dispatcher is running ----------- *)
(* A registration call is `s.events[k] = append(s.events[k], &callback)`,  *)
(* handle ranges over s.events[name] and s.events["*"]; neither takes a    *)
(* lock, Session.eventMu is locked nowhere.                                *)

\* the type of the callback a registration call stores under key
CallbackType(key) ==
  IF key = IRCMsgCmdNotice THEN "func(*Session)" ELSE ircCallbackEventMap(key)

\* a registration call on another thread reaches its assignment
RegisterBegin(key) ==
  /\ ~access.fatal /\ access.writing = ""
  /\ Registered(events) < MaxHandlers
  /\ access' = [access EXCEPT !.writing = key]
  /\ UNCHANGED <<mainVars, parsed, tagged, cfg, last, wrapped, client, reader>>

\* the assignment is done
RegisterEnd ==
  /\ ~access.fatal /\ access.writing # ""
  /\ events' = Register(events, access.writing, CallbackType(access.writing))
  /\ access' = [access EXCEPT !.writing = ""]
  /\ UNCHANGED <<connVars, dispVars, srvVars, sendVars, streamVars, parsed, tagged, cfg,
                 last, wrapped, client, reader>>

\* the read loop enters the loops of handle with the message of a line
HandleBegin(raw) ==
  /\ ~access.fatal /\ ~access.reading
  /\ MessageOf(raw).kind = "msg" /\ HasEntry(MessageOf(raw).Command.Name)
  /\ MessageOf(raw).Command.Name # IRCMsgCmdPing
  /\ lastMsg' = MessageOf(raw)
  /\ access' = [access EXCEPT !.reading = TRUE]
  /\ UNCHANGED <<events, connVars, srvVars, sendVars, streamVars, parsed, tagged, cfg,
                 last, wrapped, client, reader, lastOut, lastRun>>

\* handle returns; a map read that met a map write is a data race: the
\* runtime may end the process ("concurrent map read and map write")
HandleEnd ==
  /\ ~access.fatal /\ access.reading
  /\ lastOut' = handle(events, lastMsg)
  /\ \E fatal \in {FALSE, access.writing # ""} :
       access' = [access EXCEPT !.reading = FALSE, !.fatal = fatal]
  /\ UNCHANGED <<events, connVars, srvVars, sendVars, streamVars, parsed, tagged, cfg,
                 last, wrapped, client, reader, lastMsg, lastRun>>

RegistryInit == ConnInit(1) /\ impl = "Session"

RegistryNext ==
  \/ \E key \in EventKeys : RegisterBegin(key)
  \/ RegisterEnd
  \/ \E raw \in DispatchLines : HandleBegin(raw)
  \/ HandleEnd

SpecRegistry == RegistryInit /\ [][RegistryNext]_vars

(* ------------------------ handshake properties ------------------------ *)

\* the categories of which the handshake of socket k has examined a line
SeenNames(k) == {MessageOf(l).Command.Name : l \in socks[k].seen}

\* a Connect of thread t that dialed has ended with r
Ended(t, r) == mine[t] # 0 /\ pc[t] # "wait" /\ result[t] = r

ChecklistSound ==
  /\ \A k \in DOMAIN socks :
       socks[k].checklist = Complete => AckNames \subseteq SeenNames(k)
  /\ \A t \in Threads :
       impl = "IRCSession" /\ Ended(t, "nil") =>
         /\ socks[mine[t]].checklist = Complete
         /\ AckNames \subseteq SeenNames(mine[t])

BitsKept ==
  \A k \in DOMAIN socks :
    BitOr(socks'[k].checklist, socks[k].checklist) = socks'[k].checklist

\* C1: in the checklist handshake the checklist is 255, and waitForInit
\* returns nil, only after a line of each of the eight categories has been
\* received, in every order and with any repeats, and no step clears a bit.
C1_ChecklistOnlyAfterAll == []ChecklistSound /\ [][BitsKept]_vars

C1_Witness ==
  /\ impl = "IRCSession"
  /\ \E t \in Threads :
       /\ Ended(t, "nil")
       /\ socks[mine[t]].checklist = Complete
       /\ LinePing \in socks[mine[t]].seen

\* C2: Session.Connect returns nil only when a line of each of the eight
\* acknowledgment categories has been received on that connection.
C2_NilOnlyWhenComplete ==
  \A t \in Threads :
    impl = "Session" /\ Ended(t, "nil") => AckNames \subseteq SeenNames(mine[t])

\* C3: when the server sends its welcome (the eight acknowledgments in any
\* order, one or two to a buffer, a PING among them, no invalid-credentials
\* NOTICE), a Connect that dialed and met no read error returns nil and
\* exactly one read loop has been started.
C3_WelcomeConnects ==
  \A t \in Threads :
    mine[t] # 0 /\ pc[t] # "wait" /\ result[t] # "ErrRead" =>
      result[t] = "nil" /\ loops = 1

\* C4: once the handshake has read the NOTICE "Improperly formatted auth",
\* Connect returns ErrInvalidToken, the socket is closed and no read loop
\* is started.
C4_BadAuthRejected ==
  \A k \in DOMAIN socks :
    LineBadAuth \in socks[k].seen =>
      /\ ~socks[k].open
      /\ loops = 0
      /\ \A t \in Threads : mine[t] = k => result[t] = "ErrInvalidToken"

C4_Witness ==
  \E t \in Threads :
    /\ Ended(t, "ErrInvalidToken")
    /\ {LineBadAuth, LineCap, LineGlobalUserState} \subseteq socks[mine[t]].seen

C20_DeadlineCleared ==
  /\ \A t \in Threads, r \in {"nil", "ErrInvalidToken", "ErrRead"} :
       Ended(t, r) => ~socks[mine[t]].deadline
  /\ alive > 0 /\ ircConn # 0 => ~socks[ircConn].deadline

C20_Witness ==
  \E t \in Threads :
    /\ Ended(t, "nil") /\ alive = 1 /\ ~socks[mine[t]].deadline
    /\ socks[mine[t]].sent # {} /\ calls # {}

\* C5: whatever the interleaving of concurrent Connect calls on one
\* session, at most one of them dials a socket.
C5_SingleDial == Len(socks) <= 1

\* C10: when Connect has returned nil, every callback registered with
\* OnGlobalUserState before it has been invoked with the GLOBALUSERSTATE
\* line of the handshake.
C10_GlobalUserStateDelivered ==
  \A t \in Threads :
    Ended(t, "nil") =>
      \A i \in 1..Len(events[IRCMsgCmdGlobaluserstate]) :
        \E c \in calls :
          /\ c.key = IRCMsgCmdGlobaluserstate /\ c.ord = i
          /\ c.raw = LineGlobalUserState

(* ------------------------ dispatcher properties ----------------------- *)

IsDispatched == lastMsg.kind = "msg"
IsPing == IsDispatched /\ lastMsg.Command.Name = IRCMsgCmdPing
NonPing == IsDispatched /\ lastMsg.Command.Name # IRCMsgCmdPing

\* the calls made to the callbacks registered under key, in call order
CallsOf(key) == SelectSeq(lastOut.calls, LAMBDA c : c.key = key)

\* C6: a PING makes the session write exactly the one line PONG CR LF and
\* invokes no registered callback, whatever is registered.
C6_PingOnlyPong ==
  IsPing => /\ lastOut.writes = << <<"PONG", CR, LF>> >>
            /\ lastOut.calls = <<>>

C6_Witness ==
  /\ IsPing
  /\ Len(events[AnyKey]) >= 1
  /\ Registered(events) >= 2
  /\ lastOut.writes # <<>>

\* the registry is the one the message was dispatched with exactly in the
\* state a dispatch step leaves: a dispatch step is a step that keeps events
AfterDispatch(P) == UNCHANGED events => P

(* ------------------------ sender properties -------------------------- *)

Done(a) == sender[a].pc = "done"

\* C12: two concurrent SendCommand calls write under the session's write
\* guard: no two callers are inside conn.Write at the same time.
C12_WritesExclusive ==
  \A a, b \in Senders : a # b => ~(sender[a].pc = "write" /\ sender[b].pc = "write")

Mentions(line, sym) == \E i \in 1..Len(line) : line[i] = sym

\* C13: no log entry of a SendCommand call for the PASS line holds the
\* token, whether the write succeeds or fails.
C13_TokenNotLogged ==
  \A a \in Senders, token \in Tokens :
    Done(a) /\ sender[a].cmd = PassLine(token) =>
      \A i \in 1..Len(sender[a].log) : ~Mentions(sender[a].log[i], token)

\* the commands that are empty or only a newline
Blank == {<<>>, <<LF>>}

BlankWritesNothing ==
  \A a \in Senders :
    sender[a].pc # "idle" /\ sender[a].cmd \in Blank =>
      Done(a) /\ sender[a].bytes = <<>> /\ sender[a].log = <<>>

BlankChangesNothing ==
  \A a \in Senders :
    sender'[a] # sender[a] /\ sender'[a].cmd \in Blank =>
      UNCHANGED <<events, connVars>>

\* C14: SendCommand with an empty command, or one that is only a newline,
\* writes no bytes, raises no error (also with no connection) and leaves
\* the session as it was.
C14_BlankCommandIgnored == []BlankWritesNothing /\ [][BlankChangesNothing]_vars

C14_Witness ==
  /\ ircConn = 0
  /\ Done("application") /\ sender["application"].cmd = <<LF>>
  /\ Done("callback") /\ sender["callback"].cmd = <<>>

\* a non-empty command that does not end in a newline
Plain(c) == c # <<>> /\ c[Len(c)] # LF

\* C15: for a non-empty command c without a final newline, SendCommand(c)
\* and SendCommand(c + "\n") write the same bytes c + "\r\n": one CRLF at
\* the end and no second line ending.
C15_OneTerminator ==
  \A a, b \in Senders :
    Done(a) /\ sender[a].ok /\ Plain(sender[a].cmd) =>
      /\ sender[a].bytes = <<sender[a].cmd \o <<CR, LF>>>>
      /\ Done(b) /\ sender[b].ok /\ sender[b].cmd = sender[a].cmd \o <<LF>> =>
           sender[b].bytes = sender[a].bytes

C15_Witness ==
  /\ Done("application") /\ sender["application"].ok
  /\ Done("callback") /\ sender["callback"].ok
  /\ sender["application"].cmd = <<"x">>
  /\ sender["callback"].cmd = <<"x", LF>>

(* --------------------- properties of the read loop -------------------- *)

\* the connection was closed while the read loop runs
ClosedUnderLoop == ircConn # 0 /\ ~socks[ircConn].open /\ alive > 0

\* the loop ended on the closed-connection error
EndedOnClose == stream.end = "ErrClosed"

C16_Step ==
  /\ ClosedUnderLoop =>
       /\ UNCHANGED <<calls, crashed, socks>>
       /\ stream' # stream => EndedOnClose' /\ alive' = alive - 1
  /\ EndedOnClose => UNCHANGED <<calls, crashed, socks, alive, loops>>

\* C16: after Close, called while the read loop waits in a read, the loop's
\* read fails with the closed-connection error, the loop ends with no error
\* surfaced and no abort, and no message is dispatched from then on.
C16_CloseEndsLoop ==
  /\ [](EndedOnClose => alive = 0 /\ ~crashed)
  /\ [][C16_Step]_vars
  /\ ClosedUnderLoop ~> EndedOnClose

C16_Witness == EndedOnClose /\ alive = 0 /\ loops = 1 /\ calls # {}

\* C17: once the peer has closed the connection, the running read loop
\* eventually ends.
C17_LoopEndsAtEndOfStream == (stream.eof /\ alive > 0) ~> (alive = 0)

(* --------------------- properties of the loops ------------------------ *)

\* the names the checklist handshake acknowledges without dispatching
SilentNames == AckNames \ {IRCMsgCmdGlobaluserstate}

\* the lines of the last buffer were examined in arrival order, each one
\* before the next, up to the line that ended the loop
InArrivalOrder ==
  LET log == lastRun.st.log
  IN /\ Len(log) <= Len(lastRun.lines)
     /\ \A i \in 1..Len(log) : log[i].raw = lastRun.lines[i]
     /\ lastRun.st.exit = "" => Len(log) = Len(lastRun.lines)

\* what the dispatcher owes a message of this name: the callbacks of the
\* name, then those of "*", and the PONG for a PING
OwedCalls(name) ==
  IF name \in {IRCMsgCmdGlobaluserstate, IRCMsgCmdRoomstate}
  THEN events[name] \o events[AnyKey] ELSE <<>>

OwedWrites(name) ==
  IF name = IRCMsgCmdPing THEN << <<"PONG", CR, LF>> >> ELSE <<>>

C11_Forwarded ==
  lastRun.kind = "init" =>
    /\ InArrivalOrder
    /\ \A i \in 1..Len(lastRun.st.log) :
         LET e == lastRun.st.log[i]
             m == MessageOf(e.raw)
             name == m.Command.Name
         IN m.kind = "msg" /\ ~IsBadAuth(m) =>
              IF name \in SilentNames
              THEN e.calls = <<>> /\ e.writes = <<>> /\ e.check # 0
              ELSE /\ e.calls = OwedCalls(name)
                   /\ e.writes = OwedWrites(name)
                   /\ e.check = IF name = IRCMsgCmdGlobaluserstate THEN 128 ELSE 0

RECURSIVE WritesOf(_)
WritesOf(log) ==
  IF Len(log) = 0 THEN <<>> ELSE log[1].writes \o WritesOf(Tail(log))

C18_InOrder ==
  lastRun.kind = "listen" /\ lastRun.st.exit = "" =>
    /\ InArrivalOrder
    /\ lastRun.st.writes = WritesOf(lastRun.st.log)
    /\ \A i \in 1..Len(lastRun.st.log) :
         LET e == lastRun.st.log[i]
             m == MessageOf(e.raw)
         IN /\ \A j \in 1..Len(e.calls) : e.calls[j].key \in {m.Command.Name, AnyKey}
            /\ m.kind = "msg" =>
                 /\ e.calls = OwedCalls(m.Command.Name)
                 /\ e.writes = OwedWrites(m.Command.Name)
            /\ m.kind = "nil" => e.calls = <<>> /\ e.writes = <<>>

\* C18: the read loop hands the lines of a buffer to the dispatcher in
\* arrival order, one after the other on its own thread: all callbacks of a
\* line are invoked, and have returned, before anything is done for the next
\* line, and the PONG for a PING is written only after the callbacks of the
\* lines before it.
C18_ArrivalOrder == [][AfterDispatch(C18_InOrder')]_vars

C18_Witness ==
  /\ lastRun.kind = "listen" /\ lastRun.st.exit = ""
  /\ Len(lastRun.st.log) >= 2
  /\ Len(lastRun.st.log[1].calls) >= 2
  /\ lastRun.st.log[2].writes # <<>>

C7_Ordered ==
  NonPing =>
    LET made == lastOut.calls
        name == lastMsg.Command.Name
    IN /\ \A i \in 1..Len(made) : made[i].key \in {name, AnyKey}
       /\ \A i, j \in 1..Len(made) :
            i < j => \/ made[i].key = made[j].key /\ made[i].ord < made[j].ord
                     \/ made[i].key = name /\ made[j].key = AnyKey
       /\ CallsOf(AnyKey) # <<>> /\ name # AnyKey =>
            /\ CallsOf(name) = HandlersOf(events, name)
            /\ CallsOf(AnyKey) = events[AnyKey]

\* C7: for a non-PING message the callbacks of its command name are invoked
\* in registration order, and the "*" callbacks only after all of them, in
\* registration order too.
C7_RegistrationOrder == [][AfterDispatch(C7_Ordered')]_vars

C7_Witness ==
  /\ NonPing
  /\ Len(CallsOf(lastMsg.Command.Name)) >= 2
  /\ Len(CallsOf(AnyKey)) >= 2

C8_AnyDelivered == NonPing /\ ~lastOut.panic => CallsOf(AnyKey) = events[AnyKey]

\* C8: every non-PING message, whatever its command name, is delivered
\* exactly once to every callback registered with OnAny (stated for the
\* messages during whose dispatch no callback entry aborts).
C8_AnyGetsEveryMessage == [][AfterDispatch(C8_AnyDelivered')]_vars

C9_Invoked ==
  NonPing /\ ~lastOut.panic /\ lastMsg.Command.Name \in EventKeys \ {AnyKey} =>
    CallsOf(lastMsg.Command.Name) = events[lastMsg.Command.Name]

\* C9: every callback registered through a public registration call is
\* invoked exactly once for each dispatched message of its command name
\* (stated for the messages during whose dispatch no callback entry aborts).
C9_EveryRegisteredInvoked == [][AfterDispatch(C9_Invoked')]_vars

\* C31: every line of a buffer is examined once, in arrival order, and is
\* either an acknowledgment of the handshake or dispatched (a PING gets its
\* PONG); none is lost when the handshake completes inside the buffer.
C31_NoLineLost ==
  lastRun.kind # "none" /\ lastRun.st.exit \in {"", "nil"} =>
    /\ \A i \in 1..Len(lastRun.lines) :
         lastRun.lines[i] # <<>> =>
           i <= Len(lastRun.st.log) /\ lastRun.st.log[i].raw = lastRun.lines[i]
    /\ \A i \in 1..Len(lastRun.st.log) :
         LET e == lastRun.st.log[i]
             m == MessageOf(e.raw)
         IN m.kind = "msg" /\ m.Command.Name \notin AckNames =>
              e.writes = OwedWrites(m.Command.Name)

\* C32: an empty line has no effect in any loop: no callback, no write, no
\* checklist bit, and the loop goes on after it.
C32_EmptyLineIgnored ==
  \A i \in 1..Len(lastRun.st.log) :
    lastRun.st.log[i].raw = <<>> =>
      /\ lastRun.st.log[i].calls = <<>>
      /\ lastRun.st.log[i].writes = <<>>
      /\ lastRun.st.log[i].check = 0
      /\ i = Len(lastRun.st.log) => lastRun.st.exit = ""

\* C36: dispatching a message never aborts, whatever its arguments and
\* whatever callbacks are registered.
C36_DispatchTotal == lastMsg.kind = "msg" => ~lastOut.panic

(* ----------------------- properties of the parser --------------------- *)

\* C21: parseMessage returns a Message for every non-empty line, malformed
\* ones included; it never aborts its caller.
C21_ParserTotal == parsed.raw # <<>> => parsed.m.kind = "msg"

\* the trailing text of the parts, "" when there is none
TrailingOf(p) == IF p.trailing = <<>> THEN <<>> ELSE p.trailing[1]

\* the command of a line of the grammar is parsed into its parts
CommandParsed ==
  parsed.built =>
    /\ parsed.m.kind = "msg"
    /\ parsed.m.Command.Name = parsed.parts.name
    /\ parsed.m.Command.Arguments = parsed.parts.args
    /\ parsed.m.Command.Data = TrailingOf(parsed.parts)

\* the Source of the Message a line of the grammar was serialized from
SourceOf(p) ==
  IF p.source = <<>> THEN NilMessage.Source
  ELSE [nil |-> FALSE, Nickname |-> p.source[1].nick, Host |-> p.source[1].host]

\* C22: for every line of the grammar parseMessage yields the command name,
\* the arguments in order and the trailing text verbatim, and parsing the
\* line serialized from a Message gives that Message back (its raw line, its
\* source and its command).
C22_RoundTrip ==
  /\ CommandParsed
  /\ parsed.built =>
       /\ parsed.m.Raw = parsed.raw
       /\ parsed.m.Source = SourceOf(parsed.parts)

\* C23: a source segment nick!host is parsed into Nickname = nick and
\* Host = host, one without "!" into an empty Nickname and Host = the segment.
C23_SourceSplit ==
  parsed.built /\ parsed.parts.source # <<>> /\ parsed.m.kind = "msg" =>
    LET src == parsed.parts.source[1]
    IN IF src.nick # <<>>
       THEN parsed.m.Source.Nickname = src.nick /\ parsed.m.Source.Host = src.host
       ELSE parsed.m.Source.Nickname = <<>> /\ parsed.m.Source.Host = src.host

(* -------------------- properties of the tag decoder ------------------- *)

\* the key of a pair: what stands before its first "="
KeyOf(pair) == Split(pair, <<"=">>)[1]

\* the pair decoded into its field
InField(pair, t) ==
  CASE pair = <<"ban-duration", "=", "5">> -> t.BanDuration = 5
    [] pair = <<"room-id", "=", "1", "2">> -> t.RoomID = <<"1", "2">>
    [] pair = <<"mod", "=", "1">> -> t.Mod

\* C24: in a tag segment one of whose pairs is malformed, every well-formed
\* pair (whose key no other pair of the segment has) is decoded into its
\* field.
C24_OthersDecoded ==
  \A i, j \in 1..Len(tagged.pairs) :
    /\ tagged.pairs[i] \in BadPairs
    /\ tagged.pairs[j] \in GoodPairs
    /\ KeyOf(tagged.pairs[i]) # KeyOf(tagged.pairs[j])
    => InField(tagged.pairs[j], tagged.t)

\* C25: a tmi-sent-ts tag with the decimal value N decodes to the instant
\* N milliseconds after the Unix epoch.
C25_TimestampMillis ==
  \A i \in 1..Len(tagged.pairs) :
    Len(tagged.pairs) = 1 /\ tagged.pairs[i] \in TimePairs =>
      /\ tagged.t.Timestamp.set
      /\ tagged.t.Timestamp.ms = Atoi(SubSeq(tagged.pairs[i], 3, Len(tagged.pairs[i])))

(* -------------------- properties of the Session calls ----------------- *)

\* C26: Connect on a Session whose IRC token is empty returns nil without
\* dialing, without writing a line and without starting a read loop, and
\* leaves the session as it was.
C26_NoTokenNoConnect ==
  [][last'.op = "Connect" /\ cfg.ircToken = <<>> =>
       /\ \A t \in Threads : pc'[t] = "idle" /\ result'[t] = "nil"
       /\ UNCHANGED <<events, cfg, mu, ircConn, socks, loops, alive, crashed, calls>>]_vars

\* Connect has returned nil on a session without a token that has a handler
C26_Witness ==
  /\ last.op = "Connect" /\ cfg.ircToken = <<>>
  /\ \A t \in Threads : result[t] = "nil"
  /\ Registered(events) > 0 /\ socks = <<>>

\* C27: on a Session on which no Connect has succeeded, SetAPI overrides the
\* client id and the client secret set before and returns the session.
C27_SetAPIOverrides ==
  last.op = "SetAPI" /\ loops = 0 =>
    /\ last.out = ""
    /\ cfg.clientID = last.arg[1] /\ cfg.clientSecret = last.arg[2]

\* whether every callback of the list a is in the list b, in the same order
RECURSIVE SubList(_, _)
SubList(a, b) ==
  IF Len(a) = 0 THEN TRUE
  ELSE IF Len(b) = 0 THEN FALSE
  ELSE IF a[1] = b[1] THEN SubList(Tail(a), Tail(b))
  ELSE SubList(a, Tail(b))

\* C28: no operation on a session removes or reorders a registered handler:
\* after every step each command's list still holds every handler it held,
\* in the same order.
C28_AppendOnly ==
  [][\A k \in EventKeys : SubList(events[k], events'[k])]_vars

(* ---------------- properties of OnChannelCommandMessage --------------- *)

\* the text up to its first space
FirstToken(msg) ==
  LET i == Index(msg, <<SP>>) IN IF i < 0 THEN msg ELSE SubSeq(msg, 1, i)

\* the tokens after the first
RestTokens(msg) ==
  LET i == Index(msg, <<SP>>)
  IN IF i < 0 THEN <<>> ELSE Split(SubSeq(msg, i + 2, Len(msg)), <<SP>>)

\* equality of two texts, with or without regard to the case of letters
SameText(a, b, ignoreCase) == IF ignoreCase THEN ToLower(a) = ToLower(b) ELSE a = b

\* C29: the callback registered with OnChannelCommandMessage(cmd, ignoreCase,
\* cb) is invoked for a PRIVMSG if and only if the first token of the text
\* equals Prefix followed by cmd, compared without regard to case when
\* ignoreCase is true and exactly otherwise, and it then receives the
\* remaining tokens in order.
C29_CommandMatch ==
  wrapped.ran =>
    /\ wrapped.called <=>
         SameText(FirstToken(wrapped.msg), cfg.Prefix \o wrapped.cmd, wrapped.ignoreCase)
    /\ wrapped.called => wrapped.args = RestTokens(wrapped.msg)

(* ---------------------- properties of the oauth client ---------------- *)

\* C30: GenerateToken returns the cached token without a token request while
\* the cached token has not expired; when it has expired or none is cached
\* it issues exactly one request, a refresh-token grant with the stored
\* refresh token if one is stored, else a client-credentials grant.
C30_CachedOrOneRequest ==
  client.call.made =>
    IF client.call.before.expiresAt > client.call.at
    THEN /\ client.call.requests = <<>>
         /\ client.call.token = client.call.before.Token /\ ~client.call.err
    ELSE /\ Len(client.call.requests) = 1
         /\ client.call.requests[1].grant_type =
              (IF client.call.before.RefreshToken = "" THEN "client_credentials"
               ELSE "refresh_token")
         /\ client.call.requests[1].refresh_token = client.call.before.RefreshToken

\* a call answered from the cache: the token a, cached with the refresh token
\* r2, has not expired
C30_Witness ==
  /\ client.call.made /\ client.call.requests = <<>>
  /\ client.call.token = "a" /\ client.lastToken.RefreshToken = "r2"
  /\ client.call.before.expiresAt > client.call.at

\* C39: a token request that fails leaves the cached token, its expiry and
\* the stored refresh token as they were.
C39_FailureKeepsCache ==
  client.call.made /\ client.call.err => client.lastToken = client.call.before

(* ------------------------- properties of readAll ---------------------- *)

\* C33: a call of readAll that ends without a read error returns exactly the
\* bytes read since the call, in order; it returns only when the buffer ends
\* with LF or the stream has ended; and as long as no call has failed the
\* chunks returned are the stream read so far, cut only after an LF before
\* the end of the stream.
C33_ChunkIsWhatWasRead ==
  reader.pc = "returned" /\ ~reader.err =>
    /\ reader.buf = SubSeq(reader.sent, reader.start + 1, reader.pos)
    /\ reader.eof \/ (reader.buf # <<>> /\ reader.buf[Len(reader.buf)] = LF)
    /\ ~reader.failed => reader.got = SubSeq(reader.sent, 1, reader.pos)
    /\ ~reader.failed /\ ~reader.eof =>
         /\ reader.start = 0 \/ reader.sent[reader.start] = LF
         /\ reader.sent[reader.pos] = LF

\* a line that took two reads comes back as one chunk, after a chunk before it
C33_Witness ==
  /\ reader.pc = "returned" /\ ~reader.err /\ ~reader.eof /\ ~reader.failed
  /\ reader.start > 0 /\ Len(reader.buf) > MaxRead

(* ----------------------- properties of the registry -------------------- *)

\* C37: a registration never writes the registry while the dispatcher is
\* reading it.
C37_RegistryExclusive == ~(access.writing # "" /\ access.reading)

(* --------------------- properties of the connection ------------------- *)

\* the threads inside the loop of a handshake
Handshaking == {t \in Threads : pc[t] = "wait"}

\* C34: the read loop is started at most once, and at any time at most one
\* thread is reading the session's socket: while the read loop runs the
\* session has a socket and no handshake is in its loop, and no two
\* handshakes are in their loops together.
C34_SingleReader ==
  /\ loops <= 1
  /\ alive > 0 => ircConn # 0
  /\ alive + Cardinality(Handshaking) <= 1

\* a step in which thread t calls Connect
Calls(t) ==
  /\ pc[t] = "idle"
  /\ pc'[t] # "idle" \/ result'[t] # result[t]

\* C35: at most one dial of a session succeeds and the handle it sets is never
\* assigned again; a Connect called while the handle is set, whether the
\* socket is open or closed, returns ErrAlreadyConnected and does not dial; a
\* Connect called while it is unset goes on to dial.
C35_ConnectsOnce ==
  [][/\ Len(socks') <= 1
     /\ ircConn # 0 => ircConn' = ircConn
     /\ \A t \in Threads :
          Calls(t) =>
            IF ircConn # 0
            THEN pc'[t] = "idle" /\ result'[t] = "ErrAlreadyConnected"
            ELSE pc'[t] \in {"lock", "dial"}]_vars

\* C38: a thread holds the session lock exactly while it is inside Connect
\* between the dial and the return, so every return, an abort included, has
\* released it; and the sends made on that thread meanwhile do not wait for
\* the lock: after a dial the three handshake lines can be sent, and in a
\* handshake that dispatches (IRCSession) a PING can be answered.
C38_LockNeverBlocksConnect ==
  /\ \A t \in Threads : pc[t] \in {"dial", "wait"} <=> mu = t
  /\ \A t \in Threads :
       pc[t] = "dial" /\ ~crashed /\ Len(socks) < MaxDials =>
         ENABLED Only(DialSucceeds(t))
  /\ \A t \in Threads :
       /\ impl = "IRCSession" /\ pc[t] = "wait" /\ ~crashed
       /\ socks[ircConn].open /\ Len(socks[ircConn].written) < MaxWrites
       => ENABLED Only(IRCSession_waitForInit(t, [err |-> FALSE, buf |-> Wire(<<LinePing>>)]))

\* a handshake has answered a PING and goes on, its thread holding the lock
C38_Witness ==
  \E t \in Threads :
    /\ pc[t] = "wait" /\ mu = t
    /\ socks[mine[t]].written = HandshakeCommands \o SendCommand(IRCMsgCmdPong)

====
